---- MODULE Spec2Model ----
(***************************************************************************)
(* Verification model of the rigoros dynamic memory subsystem:             *)
(*   - the buddy page allocator  (src/buddyblock/src/lib.rs)               *)
(*   - the slab allocator        (src/slab_alloc/src/lib.rs)               *)
(* Addresses are byte addresses.  A panic of the Rust code is recorded in  *)
(* the outcome variable of the component and ends the run.                 *)
(***************************************************************************)
EXTENDS Integers, Sequences, FiniteSets, Bags, TLC

(***************************************************************************)
(* Bounds of the model                                                     *)
(***************************************************************************)
\* largest managed region of the buddy allocator, in units (metadata included)
MaxRegionUnits == 5

(***************************************************************************)
(* Program constants                                                       *)
(***************************************************************************)
UNIT_SIZE == 4096
\* size_of::<BlockBitmap>() on the 64-bit target: a pointer and a usize
BlockBitmapSize == 16
\* Option::None of an address
None == -1

VARIABLES
    \* ---- buddy allocator (struct BuddyBlock) ----
    info,            \* BuddyBlockInfo
    used,            \* usize; a negative value v stands for the wrapped value 2^64 + v
    bitmaps,         \* sequence of BlockBitmap, level i at index i + 1
    \* ---- callers of the buddy allocator ----
    blive,           \* bag of the allocations the caller holds: [addr, len]
    bfreed,          \* an allocation given back (at most one is remembered) none of
                     \* whose units has been handed out since
    bres             \* the last call and what it returned

bvars == <<info, used, bitmaps, blive, bfreed, bres>>

(***************************************************************************)
(* Arithmetic helpers                                                      *)
(***************************************************************************)
div_ceil(a, b) == (a + b - 1) \div b

\* bit k of a byte
BitOf(byte, k) == (byte \div (2 ^ k)) % 2

\* the buddy index as a slip would write it: the next block, whatever the parity
PlusOne(i) == i + 1

\* block_idx ^ 1
Xor1(i) == IF i % 2 = 0 THEN i + 1 ELSE i - 1

\* bitmap_index_for_size as a slip would write it: <= for < in the loop condition
RECURSIVE bitmap_index_loop_strict(_, _)
bitmap_index_loop_strict(size, idx) ==
    IF UNIT_SIZE * (2 ^ idx) <= size THEN bitmap_index_loop_strict(size, idx + 1) ELSE idx

bitmap_index_for_size_strict(size) == bitmap_index_loop_strict(size, 0)

RECURSIVE bitmap_index_loop(_, _)
bitmap_index_loop(size, idx) ==
    IF UNIT_SIZE * (2 ^ idx) < size THEN bitmap_index_loop(size, idx + 1) ELSE idx

bitmap_index_for_size(size) == bitmap_index_loop(size, 0)

(***************************************************************************)
(* BuddyBlockInfo                                                          *)
(***************************************************************************)
\* the loop of from_chunk as a slip would write it: the bytes of a level rounded down
RECURSIVE from_chunk_loop_floor(_, _, _)
from_chunk_loop_floor(block_count, levels, bits) ==
    LET l == levels + 1
        b == bits + (block_count \div 8)
    IN  IF block_count = 1 THEN [levels |-> l, bits |-> b]
        ELSE from_chunk_loop_floor(block_count \div 2, l, b)

RECURSIVE from_chunk_loop(_, _, _)
from_chunk_loop(block_count, levels, bits) ==
    LET l == levels + 1
        b == bits + ((block_count - 1) \div 8 + 1)
    IN  IF block_count = 1 THEN [levels |-> l, bits |-> b]
        ELSE from_chunk_loop(block_count \div 2, l, b)

\* BuddyBlockInfo::from_chunk; panic = TRUE when one of its asserts fails
from_chunk(addr, len) ==
    IF len <= UNIT_SIZE
    THEN [panic |-> TRUE, raw_addr |-> addr, total_len |-> len, metadata_len |-> 0,
          data_offset |-> 0, units |-> 0, levels |-> 0]
    ELSE LET units == (len - 1) \div UNIT_SIZE + 1
             lb == from_chunk_loop(units, 0, 0)
             metadata_len == lb.levels * BlockBitmapSize + lb.bits
         IN  [panic |-> ~(metadata_len < len), raw_addr |-> addr, total_len |-> len,
              metadata_len |-> metadata_len, data_offset |-> 0, units |-> units,
              levels |-> lb.levels]

\* BuddyBlockInfo::new
InfoNew(raw_addr, total_len) ==
    LET tmp == from_chunk(raw_addr, total_len)
        data_offset == div_ceil(tmp.metadata_len, UNIT_SIZE) * UNIT_SIZE
        inf == from_chunk(raw_addr + data_offset, total_len - data_offset)
    IN  IF tmp.panic \/ total_len < data_offset THEN [tmp EXCEPT !.panic = TRUE]
        ELSE [inf EXCEPT !.panic = inf.panic \/ ~(inf.metadata_len < data_offset),
                         !.raw_addr = raw_addr,
                         !.total_len = total_len,
                         !.data_offset = data_offset]

data_addr == info.raw_addr + info.data_offset
data_len == info.total_len - info.data_offset

(***************************************************************************)
(* BlockBitmapRef: bits is an array of bytes, count the cached number of   *)
(* set bits                                                                *)
(***************************************************************************)
bits_len(units, bitmap_idx) == ((units \div (2 ^ bitmap_idx)) - 1) \div 8 + 1

get(bm, block_idx) == BitOf(bm.bits[block_idx \div 8], block_idx % 8) = 1

\* set_1 as a slip would write it: the bit set, the cached count left as it was
set_1_no_count(bm, block_idx) ==
    IF get(bm, block_idx) THEN bm
    ELSE [bits |-> [bm.bits EXCEPT ![block_idx \div 8] = @ + (2 ^ (block_idx % 8))],
          count |-> bm.count]

set_1(bm, block_idx) ==
    IF get(bm, block_idx) THEN bm
    ELSE [bits |-> [bm.bits EXCEPT ![block_idx \div 8] = @ + (2 ^ (block_idx % 8))],
          count |-> bm.count + 1]

set_0(bm, block_idx) ==
    IF get(bm, block_idx)
    THEN [bits |-> [bm.bits EXCEPT ![block_idx \div 8] = @ - (2 ^ (block_idx % 8))],
          count |-> bm.count - 1]
    ELSE bm

empty(bm) == bm.count = 0

RECURSIVE first_1_byte(_, _)
first_1_byte(bm, bits_idx) ==
    IF bm.bits[bits_idx] = 0 THEN first_1_byte(bm, bits_idx + 1) ELSE bits_idx

\* the bit scan of first_1 as a slip would write it: from the highest bit downwards
RECURSIVE first_1_offset_high(_, _)
first_1_offset_high(byte, offset) ==
    IF BitOf(byte, 7 - offset) = 0 THEN first_1_offset_high(byte, offset + 1)
    ELSE 7 - offset

RECURSIVE first_1_offset(_, _)
first_1_offset(byte, offset) ==
    IF BitOf(byte, offset) = 0 THEN first_1_offset(byte, offset + 1) ELSE offset

first_1(bm) ==
    LET bits_idx == first_1_byte(bm, 0)
    IN  bits_idx * 8 + first_1_offset(bm.bits[bits_idx], 0)

(***************************************************************************)
(* BuddyBlock::new: the bitmaps of a fresh allocator                       *)
(***************************************************************************)
\* the bitmaps of a fresh allocator as a slip would write them: the odd block at the
\* tail of a level below the top not marked free
RECURSIVE new_bitmaps_no_tail(_, _)
new_bitmaps_no_tail(block_count, acc) ==
    LET len == (block_count - 1) \div 8 + 1
        zero == [i \in 0 .. len - 1 |-> 0]
        bm == IF block_count = 1 THEN [bits |-> [zero EXCEPT ![0] = 1], count |-> 1]
              ELSE [bits |-> zero, count |-> 0]
        next == Append(acc, bm)
    IN  IF block_count \div 2 = 0 THEN next
        ELSE new_bitmaps_no_tail(block_count \div 2, next)

RECURSIVE new_bitmaps(_, _)
new_bitmaps(block_count, acc) ==
    LET len == (block_count - 1) \div 8 + 1
        zero == [i \in 0 .. len - 1 |-> 0]
        bm == IF block_count % 2 # 0
              THEN [bits |-> [zero EXCEPT ![len - 1] = 2 ^ ((block_count % 8) - 1)],
                    count |-> 1]
              ELSE [bits |-> zero, count |-> 0]
        next == Append(acc, bm)
    IN  IF block_count \div 2 = 0 THEN next ELSE new_bitmaps(block_count \div 2, next)

BuddyNew(inf) == new_bitmaps(inf.units, <<>>)

(***************************************************************************)
(* BuddyBlock::alloc                                                       *)
(***************************************************************************)
\* split as a slip would write it: the left child, which is handed out, marked free
RECURSIVE split_left(_, _, _, _)
split_left(bms, above, bitmap_idx_fit, below_block_idx) ==
    IF above <= bitmap_idx_fit THEN bms
    ELSE LET below == above - 1
             idx == below_block_idx * 2
         IN  split_left([bms EXCEPT ![below + 1] = set_1(@, idx)],
                        below, bitmap_idx_fit, idx)

\* split as a slip would write it: the index of the block not doubled on the way down
RECURSIVE split_unshifted(_, _, _, _)
split_unshifted(bms, above, bitmap_idx_fit, below_block_idx) ==
    IF above <= bitmap_idx_fit THEN bms
    ELSE LET below == above - 1
             idx == below_block_idx
         IN  split_unshifted([bms EXCEPT ![below + 1] = set_1(@, idx + 1)],
                             below, bitmap_idx_fit, idx)

\* the split loop: for below in (bitmap_idx_fit..bitmap_idx).rev()
RECURSIVE split(_, _, _, _)
split(bms, above, bitmap_idx_fit, below_block_idx) ==
    IF above <= bitmap_idx_fit THEN bms
    ELSE LET below == above - 1
             idx == below_block_idx * 2
         IN  split([bms EXCEPT ![below + 1] = set_1(@, idx + 1)],
                   below, bitmap_idx_fit, idx)

\* the scan as a slip would write it: used grows by the size of a block of the level
\* that fits, not by the aligned length
RECURSIVE alloc_scan_block_len(_, _, _)
alloc_scan_block_len(aligned_len, bitmap_idx_fit, bitmap_idx) ==
    IF bitmap_idx >= Len(bitmaps)
    THEN [out |-> "ok", ret |-> None, used |-> used, bitmaps |-> bitmaps]
    ELSE IF empty(bitmaps[bitmap_idx + 1])
    THEN alloc_scan_block_len(aligned_len, bitmap_idx_fit, bitmap_idx + 1)
    ELSE LET block_idx == first_1(bitmaps[bitmap_idx + 1])
             taken == [bitmaps EXCEPT ![bitmap_idx + 1] = set_0(@, block_idx)]
         IN  [out |-> "ok",
              ret |-> data_addr + block_idx * (UNIT_SIZE * (2 ^ bitmap_idx)),
              used |-> used + UNIT_SIZE * (2 ^ bitmap_idx_fit),
              bitmaps |-> split(taken, bitmap_idx, bitmap_idx_fit, block_idx)]

\* the scan as a slip would write it: only the level that fits is looked at
alloc_scan_fit_only(aligned_len, bitmap_idx_fit, bitmap_idx) ==
    IF empty(bitmaps[bitmap_idx + 1])
    THEN [out |-> "ok", ret |-> None, used |-> used, bitmaps |-> bitmaps]
    ELSE LET block_idx == first_1(bitmaps[bitmap_idx + 1])
         IN  [out |-> "ok",
              ret |-> data_addr + block_idx * (UNIT_SIZE * (2 ^ bitmap_idx)),
              used |-> used + aligned_len,
              bitmaps |-> [bitmaps EXCEPT ![bitmap_idx + 1] = set_0(@, block_idx)]]

\* the scan of alloc: for bitmap_idx in bitmap_idx_fit..bitmap_len
RECURSIVE alloc_scan(_, _, _)
alloc_scan(aligned_len, bitmap_idx_fit, bitmap_idx) ==
    IF bitmap_idx >= Len(bitmaps)
    THEN [out |-> "ok", ret |-> None, used |-> used, bitmaps |-> bitmaps]
    ELSE IF empty(bitmaps[bitmap_idx + 1])
    THEN alloc_scan(aligned_len, bitmap_idx_fit, bitmap_idx + 1)
    ELSE LET block_idx == first_1(bitmaps[bitmap_idx + 1])
             taken == [bitmaps EXCEPT ![bitmap_idx + 1] = set_0(@, block_idx)]
         IN  [out |-> "ok",
              ret |-> data_addr + block_idx * (UNIT_SIZE * (2 ^ bitmap_idx)),
              used |-> used + aligned_len,
              bitmaps |-> split(taken, bitmap_idx, bitmap_idx_fit, block_idx)]

alloc(len) ==
    IF len = 0
    THEN [out |-> "panic", ret |-> None, used |-> used, bitmaps |-> bitmaps]
    ELSE LET aligned_len == div_ceil(len, UNIT_SIZE) * UNIT_SIZE
             bitmap_idx_fit == bitmap_index_for_size(aligned_len)
         IN  IF bitmap_idx_fit >= Len(bitmaps)
             THEN [out |-> "ok", ret |-> None, used |-> used, bitmaps |-> bitmaps]
             ELSE alloc_scan(aligned_len, bitmap_idx_fit, bitmap_idx_fit)

(***************************************************************************)
(* BuddyBlock::dealloc                                                     *)
(***************************************************************************)
\* the loop of dealloc as a slip would write it: the block marked free, never merged
dealloc_loop_no_merge(bms, current, block_idx) ==
    LET bm == bms[current + 1]
    IN  IF block_idx \div 8 \notin DOMAIN bm.bits \/ get(bm, block_idx)
        THEN [out |-> "panic", bitmaps |-> bms]
        ELSE [out |-> "ok", bitmaps |-> [bms EXCEPT ![current + 1] = set_1(bm, block_idx)]]

RECURSIVE dealloc_loop(_, _, _)
dealloc_loop(bms, current, block_idx) ==
    LET bm == bms[current + 1]
    IN  IF block_idx \div 8 \notin DOMAIN bm.bits \/ get(bm, block_idx)
        THEN [out |-> "panic", bitmaps |-> bms]
        ELSE LET marked == set_1(bm, block_idx)
                 buddy_idx == Xor1(block_idx)
             IN  IF get(marked, buddy_idx) /\ ~(current + 1 >= Len(bms))
                 THEN dealloc_loop(
                          [bms EXCEPT ![current + 1] =
                               set_0(set_0(marked, buddy_idx), block_idx)],
                          current + 1, block_idx \div 2)
                 ELSE [out |-> "ok", bitmaps |-> [bms EXCEPT ![current + 1] = marked]]

\* dealloc as a slip would write it: addr and len taken as given, not widened to the
\* units they touch
dealloc_exact(addr, len, overflow_checks) ==
    IF len = 0
    THEN [out |-> "ok", used |-> used, bitmaps |-> bitmaps, wraps |-> FALSE]
    ELSE LET bitmap_idx_fit == bitmap_index_for_size(len)
             in_range == /\ data_addr <= addr
                         /\ addr < data_addr + data_len
                         /\ addr + len <= data_addr + data_len
                         /\ bitmap_idx_fit < Len(bitmaps)
         IN  IF ~in_range
             THEN [out |-> "panic", used |-> used, bitmaps |-> bitmaps, wraps |-> FALSE]
             ELSE LET block_idx == (addr - data_addr)
                                       \div (UNIT_SIZE * (2 ^ bitmap_idx_fit))
                      r == dealloc_loop(bitmaps, bitmap_idx_fit, block_idx)
                  IN  IF r.out = "panic"
                      THEN [out |-> "panic", used |-> used, bitmaps |-> r.bitmaps,
                            wraps |-> FALSE]
                      ELSE [out |-> "ok", used |-> used - len, bitmaps |-> r.bitmaps,
                            wraps |-> FALSE]

\* the result of dealloc(addr, len); wraps tells that used -= aligned_len overflows,
\* which panics in a build with overflow checks (debug profile) and wraps without
dealloc(addr, len, overflow_checks) ==
    IF len = 0
    THEN [out |-> "ok", used |-> used, bitmaps |-> bitmaps, wraps |-> FALSE]
    ELSE LET aligned_addr == (addr \div UNIT_SIZE) * UNIT_SIZE
             aligned_end == div_ceil(addr + len, UNIT_SIZE) * UNIT_SIZE
             aligned_len == aligned_end - aligned_addr
             bitmap_idx_fit == bitmap_index_for_size(aligned_len)
             in_range == /\ data_addr <= aligned_addr
                         /\ aligned_addr < data_addr + data_len
                         /\ data_addr < aligned_end
                         /\ aligned_end <= data_addr + data_len
                         /\ bitmap_idx_fit < Len(bitmaps)
         IN  IF ~in_range
             THEN [out |-> "panic", used |-> used, bitmaps |-> bitmaps, wraps |-> FALSE]
             ELSE LET block_idx == (aligned_addr - data_addr)
                                       \div (UNIT_SIZE * (2 ^ bitmap_idx_fit))
                      r == dealloc_loop(bitmaps, bitmap_idx_fit, block_idx)
                  IN  IF r.out = "panic"
                      THEN [out |-> "panic", used |-> used, bitmaps |-> r.bitmaps,
                            wraps |-> FALSE]
                      ELSE IF used >= 0 /\ used < aligned_len /\ overflow_checks
                      THEN [out |-> "panic", used |-> used, bitmaps |-> r.bitmaps,
                            wraps |-> TRUE]
                      ELSE [out |-> "ok", used |-> used - aligned_len,
                            bitmaps |-> r.bitmaps,
                            wraps |-> used >= 0 /\ used < aligned_len]

(***************************************************************************)
(***************************************************************************)
(* Slab allocator (src/slab_alloc/src/lib.rs)                              *)
(***************************************************************************)
(***************************************************************************)
\* number of pages the page provider owns
MaxPages == 2

\* number of pages of the provider that owns the most ("all_pages")
MaxAddrs == MaxPages + 1

\* slots that the pages of the provider hold in total, at most
MaxSlots == 6

\* words of the payloads that the caller writes, at most
MaxWritten == 1

\* the slots in a page of the allocators whose layout is checked, at most
MaxLayoutSlots == 16
\* the IrqMutex statics of the kernel that are modelled
MaxMutexes == 3

PAGE_SIZE == 4096
REDZONE_SIZE == 16
OBJECT_MAGIC == 27484
REDZONE_FILL == 241
UNUSED_FILL == 226
\* size_of and align_of of ObjectHeader (two u16) and size_of PageHeader (two
\* pointers and two u16, padded to the pointer alignment)
ObjectHeaderSize == 4
ObjectHeaderAlign == 2
PageHeaderSize == 24
\* the byte the test page provider fills a returned page with
MockFill == 221
\* a null pointer
Null == 0

VARIABLES
    slab,      \* SlabAllocator: payload_size, payload_align, front_size, object_size
    hdr,       \* the PageHeader at each address: avail_start and the head of every page
    obj,       \* obj[page][offset]: the slot at that offset of the page
    held,      \* pages the provider has handed to the slab and not got back
    slive,     \* bag of the payload pointers the caller holds
    sfreed,    \* the pointer given back last, unless alloc has returned it again
    scorrupt,  \* the out-of-payload write the caller has made, if any
    provider,  \* the kind of page provider the slab was built with
    returned,  \* pages the slab has given back and not received again
    uaf,       \* the slab has touched a page it does not hold
    starved,   \* the provider has declined to supply a page
    sres       \* the last call and what it returned

svars ==
    <<slab, provider, hdr, obj, held, returned, slive, sfreed, scorrupt, uaf, starved,
      sres>>

\* (x + mask) & !mask for a power of two align
align_ceil(x, align) ==
    LET mask == align - 1
    IN  (x + mask) - ((x + mask) % align)

IsPowerOfTwo(n) == \E k \in 0 .. 15 : n = 2 ^ k

Max(a, b) == IF a >= b THEN a ELSE b

\* ObjectHeader::align
ObjectAlign(payload_align) == Max(payload_align, ObjectHeaderAlign)

\* SlabAllocator::new; panic = TRUE when one of its asserts fails
SlabNew(payload_size, payload_align) ==
    LET object_align == ObjectAlign(payload_align)
        front_size == align_ceil(ObjectHeaderSize + REDZONE_SIZE, object_align)
        object_size == align_ceil(front_size + payload_size + REDZONE_SIZE, object_align)
    IN  [panic |-> ~(/\ IsPowerOfTwo(payload_align)
                     /\ payload_align <= PAGE_SIZE \div 4
                     /\ payload_size < PAGE_SIZE \div 2
                     /\ payload_size > 0
                     /\ object_size <= PAGE_SIZE \div 2),
         payload_size |-> payload_size,
         payload_align |-> payload_align,
         front_size |-> front_size,
         object_size |-> object_size]

\* page_offset as a slip would write it: the size of the page header, not aligned
page_offset_unaligned(sl) == PageHeaderSize

\* SlabAllocator::page_offset
page_offset(sl) == align_ceil(PageHeaderSize, ObjectAlign(sl.payload_align))

right_offset(sl) == sl.front_size + sl.payload_size

\* the offsets at which alloc_page lays out slots (the loop of lines 254-271)
RECURSIVE format_offsets(_, _)
format_offsets(sl, offset) ==
    IF (offset + sl.object_size) + sl.object_size <= PAGE_SIZE
    THEN <<offset>> \o format_offsets(sl, offset + sl.object_size)
    ELSE <<offset>>

SlotOffsets(sl) ==
    LET offs == format_offsets(sl, page_offset(sl))
    IN  {offs[i] : i \in 1 .. Len(offs)}

\* the bytes of a slot the model keeps, as offsets from the slot's start: all bytes
\* between the header and the payload, the first sixteen and the last payload byte,
\* and all bytes behind the payload.  The allocator reads and writes the first
\* payload byte only; the caller writes the payload, and the first sixteen bytes
\* hold an aligned usize word of the page wherever the payload starts.  The payload
\* bytes behind them behave as these do.
SlotBytes(sl) ==
    (ObjectHeaderSize ..
        (IF sl.front_size + 15 < right_offset(sl) THEN sl.front_size + 15
         ELSE right_offset(sl) - 1))
        \cup {right_offset(sl) - 1}
        \cup (right_offset(sl) .. sl.object_size - 1)

\* the usize words of a page, as offsets in the page, that lie within the payload
\* bytes kept of the slot at offset
PayloadWords(sl, offset) ==
    {w \in offset + sl.front_size .. offset + sl.front_size + 8 :
        /\ w % 8 = 0
        /\ w + 8 <= offset + sl.front_size + 16
        /\ w + 8 <= offset + right_offset(sl)}

\* byte k of the usize value v, least significant first (v is below 2^32)
usize_byte(v, k) == IF k < 4 THEN (v \div (256 ^ k)) % 256 ELSE 0

\* the usize word at offset w of the page holds v; o is the slot at offset
WordIs(o, offset, w, v) ==
    \A k \in 0 .. 7 : o.bytes[w - offset + k] = usize_byte(v, k)

(***************************************************************************)
(* Memory.  M is the memory during a call: the headers, the slots, the     *)
(* outcome so far ("ok", "panic", or "wild" for an access outside the      *)
(* headers and slots, whose effect is undefined) and the set of addresses  *)
(* of the headers and pages touched.                                       *)
(***************************************************************************)
AvailAddr == 16 * PAGE_SIZE
\* the pages of the provider, page aligned; like the addresses a heap hands out
\* they lie above free + (count << 16) of every header (0x40000000 onwards)
PageAddrs == {(262144 + i) * PAGE_SIZE : i \in 0 .. MaxAddrs - 1}
\* the pointer read from memory that holds no pointer
WildPtr == 0 - 1

Fail(M, how) == IF M.out = "ok" THEN [M EXCEPT !.out = how] ELSE M

\* *a is about to be read or written as a PageHeader
Deref(M, a) ==
    IF M.out # "ok" THEN M
    ELSE IF a \notin DOMAIN M.hdr THEN Fail(M, "wild")
    ELSE [M EXCEPT !.acc = @ \cup {a}]

SetPrev(M, a, v) ==
    LET D == Deref(M, a)
    IN  IF D.out # "ok" THEN D ELSE [D EXCEPT !.hdr[a].prev = v]

SetNext(M, a, v) ==
    LET D == Deref(M, a)
    IN  IF D.out # "ok" THEN D ELSE [D EXCEPT !.hdr[a].next = v]

NextOf(M, a) == IF a \in DOMAIN M.hdr THEN M.hdr[a].next ELSE Null
PrevOf(M, a) == IF a \in DOMAIN M.hdr THEN M.hdr[a].prev ELSE Null

page_list_is_tail(M, page) == NextOf(M, page) = Null

page_list_is_singleton(M, page) == NextOf(M, page) = Null \/ PrevOf(M, page) = Null

page_list_push_tail(M, page, new_page) ==
    SetPrev(SetNext(M, page, new_page), new_page, page)

\* returns the memory; the popped page is NextOf(M, page) of the memory before
page_list_pop_next(M, page) ==
    LET n == NextOf(M, page)
    IN  IF n = Null THEN M
        ELSE LET M1 == SetNext(Deref(M, n), page, NextOf(M, n))
                 M2 == IF NextOf(M1, page) # Null
                       THEN SetPrev(M1, NextOf(M1, page), page)
                       ELSE M1
             IN  SetNext(SetPrev(M2, n, Null), n, Null)

page_list_push_next(M, page, new_page) ==
    LET M1 == SetNext(M, new_page, NextOf(M, page))
        M2 == SetPrev(M1, new_page, page)
        M3 == IF NextOf(M2, page) # Null
              THEN SetPrev(M2, NextOf(M2, page), new_page)
              ELSE M2
    IN  SetNext(M3, page, new_page)

page_list_remove(M, page) ==
    LET D == Deref(M, page)
        n == NextOf(D, page)
        p == PrevOf(D, page)
        M1 == IF n # Null THEN SetPrev(D, n, p) ELSE D
        M2 == IF p # Null THEN SetNext(M1, p, n) ELSE M1
    IN  SetPrev(SetNext(M2, page, Null), page, Null)

(***************************************************************************)
(* Slots                                                                   *)
(***************************************************************************)
\* page_from_object
page_from_object(addr) == addr - (addr % PAGE_SIZE)

OffsetOf(addr) == addr % PAGE_SIZE

IsSlot(M, addr) ==
    /\ page_from_object(addr) \in DOMAIN M.obj
    /\ OffsetOf(addr) \in DOMAIN M.obj[page_from_object(addr)]

\* *addr is about to be read or written as a slot
DerefObj(M, addr) ==
    IF M.out # "ok" THEN M
    ELSE IF ~IsSlot(M, addr) THEN Fail(M, "wild")
    ELSE [M EXCEPT !.acc = @ \cup {page_from_object(addr)}]

ObjAt(M, addr) == M.obj[page_from_object(addr)][OffsetOf(addr)]

\* check_redzone as a slip would write it: the redzone behind the payload not looked at
check_redzone_front_only(sl, o) ==
    \A i \in ObjectHeaderSize .. ObjectHeaderSize + REDZONE_SIZE - 1 :
        o.bytes[i] = REDZONE_FILL

\* check_redzone, on the slot o
check_redzone(sl, o) ==
    /\ \A i \in ObjectHeaderSize .. ObjectHeaderSize + REDZONE_SIZE - 1 :
          o.bytes[i] = REDZONE_FILL
    /\ \A i \in right_offset(sl) .. right_offset(sl) + REDZONE_SIZE - 1 :
          o.bytes[i] = REDZONE_FILL

\* check_unused, on the slot o
check_unused(sl, o) == o.bytes[sl.front_size] = UNUSED_FILL

(***************************************************************************)
(* SlabAllocator::alloc_page: formats the page the provider returned       *)
(***************************************************************************)
\* the slot as alloc_page would format it with the slip of linking the last slot of
\* the page to the offset behind it
FormatSlot_always_links(sl, o, offset) ==
    [magic |-> 0,
     next |-> offset + sl.object_size,
     bytes |-> [i \in DOMAIN o.bytes |->
                  IF i \in ObjectHeaderSize .. ObjectHeaderSize + REDZONE_SIZE - 1
                  THEN REDZONE_FILL
                  ELSE IF i = sl.front_size THEN UNUSED_FILL
                  ELSE IF i \in right_offset(sl) .. right_offset(sl) + REDZONE_SIZE - 1
                  THEN REDZONE_FILL
                  ELSE o.bytes[i]]]

FormatSlot(sl, o, offset) ==
    [magic |-> 0,
     next |-> IF (offset + sl.object_size) + sl.object_size <= PAGE_SIZE
              THEN offset + sl.object_size ELSE 0,
     bytes |-> [i \in DOMAIN o.bytes |->
                  IF i \in ObjectHeaderSize .. ObjectHeaderSize + REDZONE_SIZE - 1
                  THEN REDZONE_FILL
                  ELSE IF i = sl.front_size THEN UNUSED_FILL
                  ELSE IF i \in right_offset(sl) .. right_offset(sl) + REDZONE_SIZE - 1
                  THEN REDZONE_FILL
                  ELSE o.bytes[i]]]

alloc_page(M, addr) ==
    LET D == Deref(M, addr)
    IN  IF D.out # "ok" THEN D
        ELSE [D EXCEPT
                !.hdr[addr] = [prev |-> Null, next |-> Null,
                               free |-> page_offset(slab), count |-> 0],
                !.obj[addr] = [off \in DOMAIN D.obj[addr] |->
                                 FormatSlot(slab, D.obj[addr][off], off)]]

(***************************************************************************)
(* SlabAllocator::alloc                                                    *)
(***************************************************************************)
\* kick_full_page as a slip would write it: the full page left on the list
kick_full_page_keep(M) == M

kick_full_page(M) ==
    LET kicked == NextOf(M, AvailAddr)
        P == page_list_pop_next(M, AvailAddr)
    IN  IF kicked = Null THEN Fail(P, "panic") ELSE P

\* returns [M, ret]
alloc_from_free(M, overflow_checks) ==
    LET page == NextOf(M, AvailAddr)
        D == Deref(M, page)
    IN  IF D.out # "ok" THEN [M |-> D, ret |-> None]
        ELSE IF D.hdr[page].free = 0 THEN [M |-> Fail(D, "panic"), ret |-> None]
        ELSE
        LET addr == page + D.hdr[page].free
            O == DerefObj(D, addr)
        IN  IF O.out # "ok" THEN [M |-> O, ret |-> None]
            ELSE
            LET o == ObjAt(O, addr)
                opage == page_from_object(addr)
                ooff == OffsetOf(addr)
            IN  IF o.magic # 0 \/ ~check_redzone(slab, o) \/ ~check_unused(slab, o)
                THEN [M |-> Fail(O, "panic"), ret |-> None]
                ELSE IF O.hdr[page].count = 65535 /\ overflow_checks
                THEN [M |-> Fail([O EXCEPT !.obj[opage][ooff].magic = OBJECT_MAGIC],
                                 "panic"),
                      ret |-> None]
                ELSE
                LET M1 == [O EXCEPT !.obj[opage][ooff].magic = OBJECT_MAGIC,
                                    !.hdr[page].count = (@ + 1) % 65536]
                    M2 == IF o.next # 0
                          THEN [M1 EXCEPT !.hdr[page].free = o.next,
                                          !.obj[opage][ooff].next = 0]
                          ELSE kick_full_page([M1 EXCEPT !.hdr[page].free = 0])
                IN  [M |-> M2,
                     ret |-> IF M2.out = "ok" THEN addr + slab.front_size ELSE None]

\* alloc(); provided is what page_allocator.allocate() returns if it is called
slab_alloc(M, provided, overflow_checks) ==
    IF page_list_is_tail(M, AvailAddr)
    THEN IF provided = None THEN [M |-> M, ret |-> None]
         ELSE alloc_from_free(
                  page_list_push_tail(alloc_page(M, provided), AvailAddr, provided),
                  overflow_checks)
    ELSE alloc_from_free(M, overflow_checks)

(***************************************************************************)
(* SlabAllocator::dealloc                                                  *)
(***************************************************************************)
insert_avail_page(M, page) ==
    IF ~page_list_is_singleton(M, page) THEN Fail(M, "panic")
    ELSE page_list_push_next(M, AvailAddr, page)

\* dealloc_page up to the call of page_allocator.deallocate(page)
dealloc_page(M, page) == page_list_remove(M, page)

\* the header of a slot as dealloc requires it
header_is_allocated(o) == o.magic = OBJECT_MAGIC /\ o.next = 0

\* returns [M, returned]: returned is the page passed to page_allocator.deallocate
slab_dealloc(M, ptr, overflow_checks) ==
    LET addr == ptr - slab.front_size
        O == DerefObj(M, addr)
        page == page_from_object(addr)
        off == OffsetOf(addr)
    IN  IF O.out # "ok" THEN [M |-> O, returned |-> None]
        ELSE
        LET o == ObjAt(O, addr)
        IN  IF ~header_is_allocated(o) \/ ~check_redzone(slab, o)
            THEN [M |-> Fail(O, "panic"), returned |-> None]
            ELSE
            LET M1 == [O EXCEPT !.obj[page][off].bytes[slab.front_size] = UNUSED_FILL]
            IN  IF M1.hdr[page].count = 0 /\ overflow_checks
                THEN [M |-> Fail(M1, "panic"), returned |-> None]
                ELSE
                LET M2 == [M1 EXCEPT !.hdr[page].count = (@ + 65535) % 65536,
                                     !.obj[page][off].magic = 0]
                    M3 == IF M2.hdr[page].free # 0
                          THEN [M2 EXCEPT !.obj[page][off].next = M2.hdr[page].free]
                          ELSE M2
                    M4 == [M3 EXCEPT !.hdr[page].free = off]
                IN  IF M4.hdr[page].count = 0
                    THEN LET R == dealloc_page(M4, page)
                         IN  [M |-> R,
                              returned |-> IF R.out = "ok" THEN page ELSE None]
                    ELSE IF NextOf(M4, AvailAddr) # page
                    THEN [M |-> insert_avail_page(M4, page), returned |-> None]
                    ELSE [M |-> M4, returned |-> None]

(***************************************************************************)
(* The page provider and the callers of the slab allocator                 *)
(***************************************************************************)
\* (payload_size, payload_align) of the allocators checked: three, two, two and
\* one slot per page, with and without padding between redzone and payload
SlabConfigs == {<<1300, 8>>, <<2000, 1>>, <<2000, 4>>, <<2000, 16>>}

\* a byte that differs from REDZONE_FILL and from UNUSED_FILL
BadBytes == {170}

\* both bytes of a u16 equal to b
Word16(b) == b * 256 + b

\* The page providers: "mock" is MockPageAllocator of the tests, which fills a
\* returned page and never hands it out again, and checks the pages it has left;
\* "recycle" hands out the lowest page it has and leaves a returned page as it is;
\* "shared" is "recycle" with other clients, which use a returned page at once (as
\* another slab of the same geometry with every slot allocated would)
Providers == {"mock", "recycle", "shared"}

\* what page_allocator.allocate() returns when it has a page
Lowest(S) == CHOOSE p \in S : \A q \in S : p <= q

\* the pages the provider owns: as many of PageAddrs as hold MaxSlots slots at most
Min(a, b) == IF a <= b THEN a ELSE b

PoolOf(sl) ==
    {p \in PageAddrs :
        (p - Lowest(PageAddrs)) \div PAGE_SIZE
            < Min(MaxPages, MaxSlots \div Cardinality(SlotOffsets(sl)))}

\* "one_page" is "recycle" with a single page, whatever the number of its slots;
\* "all_pages" is "recycle" with every page of PageAddrs
ProviderPages ==
    IF provider = "mock" THEN PoolOf(slab) \ (held \cup returned)
    ELSE IF provider = "one_page" THEN {Lowest(PageAddrs)} \ held
    ELSE IF provider = "all_pages" THEN PageAddrs \ held
    ELSE PoolOf(slab) \ held

\* what page_allocator.allocate() returns: a page or None; "all_pages" declines only
\* when it has no page left
ProviderAllocate ==
    IF ProviderPages = {} THEN {None}
    ELSE IF provider = "all_pages" THEN {Lowest(ProviderPages)}
    ELSE {Lowest(ProviderPages), None}

\* bytes 20..23 of a PageHeader, the padding behind free and count, as a u32:
\* alloc_page writes the header as one value built on the stack, whose padding is
\* not initialised; it is zero or what the stack held
HeaderPadding == {0, 32764}

\* the assert loop of MockPageAllocator::deallocate(page): no page that is left in
\* pages holds a usize word equal to its own address.  The words of a page that
\* can are prev and next of its header, the word of free (low u16), count (next
\* u16) and the padding (a page address is below 2^32: the padding would be 0),
\* and the words of the payloads, which the caller writes.  Every other word of a
\* slot holds a redzone byte, and the rest of the page is zero.
mock_pages_not_self_linked(M, page, padding) ==
    \A q \in held \ {page} :
        /\ M.hdr[q].prev # q
        /\ M.hdr[q].next # q
        /\ ~(padding = 0 /\ M.hdr[q].free + 65536 * M.hdr[q].count = q)
        /\ \A off \in DOMAIN M.obj[q] : \A w \in PayloadWords(slab, off) :
              ~WordIs(M.obj[q][off], off, w, q)

\* the memory after page_allocator.deallocate(page); the mock panics, before it
\* records and fills the page, when a page it has left links to itself
PageContent(M, page, padding) ==
    IF provider = "mock" /\ ~mock_pages_not_self_linked(M, page, padding)
    THEN Fail(M, "panic")
    ELSE IF provider = "mock"
    THEN [M EXCEPT
            !.hdr[page] = [prev |-> WildPtr, next |-> WildPtr,
                           free |-> Word16(MockFill), count |-> Word16(MockFill)],
            !.obj[page] = [off \in DOMAIN M.obj[page] |->
                             [magic |-> Word16(MockFill), next |-> Word16(MockFill),
                              bytes |-> [i \in DOMAIN M.obj[page][off].bytes |->
                                           MockFill]]]]
    ELSE IF provider = "shared"
    THEN [M EXCEPT
            !.hdr[page] = [prev |-> Null, next |-> Null, free |-> 0,
                           count |-> Cardinality(DOMAIN M.obj[page])],
            !.obj[page] = [off \in DOMAIN M.obj[page] |->
                             [FormatSlot(slab, M.obj[page][off], off)
                                 EXCEPT !.magic = OBJECT_MAGIC, !.next = 0,
                                        !.bytes[slab.front_size] = 0]]]
    ELSE M

Memory == [hdr |-> hdr, obj |-> obj, out |-> "ok", acc |-> {}]

NoCorrupt == [ptr |-> None, kind |-> "none", k |-> 0]

\* Calls go on while nothing has panicked and the caller has kept to the contract.
\* Once the slab has touched a page it does not hold the behaviour is undefined; the
\* run is followed further for the provider that leaves such a page as it is, up to
\* the first pointer that is handed out while the caller still holds it.
SlabRunning ==
    /\ sres.out = "ok"
    /\ sres.op \in {"new", "alloc", "dealloc"}
    /\ scorrupt = NoCorrupt
    /\ uaf => provider \in {"recycle", "all_pages"}
    /\ \A ptr \in BagToSet(slive) : CopiesIn(ptr, slive) = 1

\* the build profiles that matter to a call: with and without overflow checks when
\* the call overflows the count of the page, one otherwise
Profiles(page, limit) ==
    IF page \in DOMAIN hdr /\ hdr[page].count = limit THEN BOOLEAN ELSE {TRUE}

(***************************************************************************)
(* IrqMutex (src/kernel/src/irq_mutex.rs): a spin mutex whose guard keeps  *)
(* the interrupts of the CPU disabled.  The kernel runs on one CPU.        *)
(***************************************************************************)
VARIABLES
    intr,      \* the interrupt flag of the CPU: what are_enabled() returns
    inner,     \* inner[m]: the spin mutex inside IrqMutex m is locked
    guards,    \* the IrqMutexGuards that exist, the one made last at the end
    ires       \* the last call and what it returned

ivars == <<intr, inner, guards, ires>>

\* the state of the ring buffer and of the main loop of the kernel, which are
\* described further down
VARIABLES
    ring,      \* the RingBuffer: buffer, first, last, empty
    rqueue,    \* the values try_push accepted and try_pop has not returned, oldest first
    rres,      \* the last call on the ring buffer and what it returned
    kpc,       \* the statement of the loop of kmain that is executed next
    kif,       \* the interrupt flag of the CPU
    kpending,  \* the interrupt lines raised and not yet delivered
    kmsg,      \* the local msg of the loop, and the number it was accepted with
    kdisp,     \* the number of the message that was dispatched last
    knext,     \* the number that the next accepted message gets
    klock      \* KEYBOARD and TERM: locked or not, and the flag TERM's guard saved

kvars == <<ring, rqueue, rres, kpc, kif, kpending, kmsg, kdisp, knext, klock>>

Mutexes == 1 .. MaxMutexes

\* InterruptGuard::lock: the flag saved and the flag of the CPU afterwards
InterruptGuard_lock(flag) ==
    [saved_intpt_flag |-> flag, intr |-> IF flag THEN FALSE ELSE flag]

\* Drop for InterruptGuard: the flag of the CPU afterwards
InterruptGuard_drop(flag, saved_intpt_flag) == IF saved_intpt_flag THEN TRUE ELSE flag

\* a call that spins on a locked mutex with the interrupts disabled never returns
IrqRunning == ires.ret # "spin"

IrqIdle ==
    /\ intr = FALSE
    /\ inner = [m \in Mutexes |-> FALSE]
    /\ guards = <<>>
    /\ ires = [op |-> "new", mutex |-> 0, ret |-> "none", prior |-> FALSE]

\* the IrqMutexGuard of mutex m; prior records the flag at the time of the call
IrqMutexGuard(m, ig, prior) ==
    [mutex |-> m, saved_intpt_flag |-> ig.saved_intpt_flag, prior |-> prior]

\* IrqMutex::lock on mutex m
IrqLock(m) ==
    /\ IrqRunning
    /\ LET ig == InterruptGuard_lock(intr)
       IN  /\ intr' = ig.intr
           /\ IF inner[m]
              THEN /\ ires' = [op |-> "lock", mutex |-> m, ret |-> "spin", prior |-> intr]
                   /\ UNCHANGED <<inner, guards>>
              ELSE /\ inner' = [inner EXCEPT ![m] = TRUE]
                   /\ guards' = Append(guards, IrqMutexGuard(m, ig, intr))
                   /\ ires' = [op |-> "lock", mutex |-> m, ret |-> "guard",
                               prior |-> intr]
    /\ UNCHANGED <<bvars, svars, kvars>>

\* IrqMutex::try_lock on mutex m
IrqTryLock(m) ==
    /\ IrqRunning
    /\ LET ig == InterruptGuard_lock(intr)
       IN  IF inner[m]
           THEN /\ intr' = InterruptGuard_drop(ig.intr, ig.saved_intpt_flag)
                /\ ires' = [op |-> "try_lock", mutex |-> m, ret |-> "none",
                            prior |-> intr]
                /\ UNCHANGED <<inner, guards>>
           ELSE /\ intr' = ig.intr
                /\ inner' = [inner EXCEPT ![m] = TRUE]
                /\ guards' = Append(guards, IrqMutexGuard(m, ig, intr))
                /\ ires' = [op |-> "try_lock", mutex |-> m, ret |-> "guard",
                            prior |-> intr]
    /\ UNCHANGED <<bvars, svars, kvars>>

\* Drop for IrqMutexGuard of the i-th guard that exists.  A guard is a value: its
\* owner drops it (or moves and drops it) before or after the guards made after it.
IrqDrop(i) ==
    /\ IrqRunning
    /\ i \in 1 .. Len(guards)
    /\ LET g == guards[i]
       IN  /\ inner' = [inner EXCEPT ![g.mutex] = FALSE]
           /\ intr' = InterruptGuard_drop(intr, g.saved_intpt_flag)
           /\ guards' = SubSeq(guards, 1, i - 1) \o SubSeq(guards, i + 1, Len(guards))
           /\ ires' = [op |-> "drop", mutex |-> g.mutex, ret |-> "none",
                       prior |-> g.prior]
    /\ UNCHANGED <<bvars, svars, kvars>>

\* interrupts::enable() and interrupts::disable() of the kernel's main loop, which
\* holds no guard
IrqSetFlag(flag) ==
    /\ IrqRunning
    /\ guards = <<>>
    /\ intr' = flag
    /\ ires' = [op |-> "set", mutex |-> 0, ret |-> "none", prior |-> intr]
    /\ UNCHANGED <<inner, guards, bvars, svars, kvars>>

NextIrq ==
    \/ \E m \in Mutexes : IrqLock(m)
    \/ \E m \in Mutexes : IrqTryLock(m)
    \/ \E i \in 1 .. MaxMutexes : IrqDrop(i)
    \/ \E flag \in BOOLEAN : IrqSetFlag(flag)

(***************************************************************************)
(* RingBuffer (src/kernel/src/ring_buffer.rs)                              *)
(***************************************************************************)
\* capacity CAP of the ring buffers, at most
MaxCap == 3

\* RingBuffer::new_with(initial) for CAP = cap
new_with(cap, initial) ==
    [buffer |-> [i \in 0 .. cap - 1 |-> initial], first |-> 0, last |-> 0,
     empty |-> TRUE]

capacity(r) == Cardinality(DOMAIN r.buffer)

\* len as a slip would write it: a full buffer, first == last, taken for an empty one
ring_len_no_wrap(r) ==
    IF r.empty THEN 0
    ELSE IF r.first <= r.last THEN r.last - r.first
    ELSE r.last + capacity(r) - r.first

\* RingBuffer::len
ring_len(r) ==
    IF r.empty THEN 0
    ELSE IF r.first < r.last THEN r.last - r.first
    ELSE r.last + capacity(r) - r.first

\* RingBuffer::try_push: the buffer afterwards and whether Some(()) was returned
try_push(r, data) ==
    IF r.empty \/ r.first # r.last
    THEN LET last == r.last + 1
         IN  [ring |-> [buffer |-> [r.buffer EXCEPT ![r.last] = data],
                        first |-> r.first,
                        last |-> IF last >= capacity(r) THEN 0 ELSE last,
                        empty |-> FALSE],
              some |-> TRUE]
    ELSE [ring |-> r, some |-> FALSE]

\* RingBuffer::try_pop: the buffer afterwards, whether Some(value) was returned, and
\* the value
try_pop(r) ==
    IF ~r.empty
    THEN LET value == r.buffer[r.first]
             next == r.first + 1
             first == IF next >= capacity(r) THEN 0 ELSE next
         IN  [ring |-> [buffer |-> r.buffer, first |-> first, last |-> r.last,
                        empty |-> first = r.last],
              some |-> TRUE, value |-> value]
    ELSE [ring |-> r, some |-> FALSE, value |-> r.buffer[r.first]]

\* RingBuffer::pop: try_pop().expect(..); panics on an empty buffer
pop(r) ==
    LET t == try_pop(r)
    IN  [ring |-> t.ring, value |-> t.value, panic |-> ~t.some]

\* RingBuffer::wrap_index: the place in buffer of the element at index, None when
\* index is not below len()
wrap_index(r, index) ==
    LET p == r.first + index
    IN  IF index >= ring_len(r) THEN None
        ELSE IF p < capacity(r) THEN p
        ELSE p - capacity(r)

\* *ring.get_mut(index) = data and ring[index] = data (IndexMut): the buffer
\* afterwards; get_mut returns None, and index_mut panics, when index is out of
\* bound
index_mut(r, index, data) ==
    LET x == wrap_index(r, index)
    IN  IF x = None THEN [ring |-> r, some |-> FALSE]
        ELSE [ring |-> [r EXCEPT !.buffer[x] = data], some |-> TRUE]

\* RingBuffer::push: try_push(data).expect(..), which panics on None
push(r, data) ==
    LET t == try_push(r, data)
    IN  [ring |-> t.ring, panic |-> ~t.some]

\* RingBuffer::push_force: the buffer afterwards and the value returned (forced)
push_force(r, data) ==
    LET forced == ~r.empty /\ r.first = r.last
        first == IF forced
                 THEN (IF r.first + 1 >= capacity(r) THEN 0 ELSE r.first + 1)
                 ELSE r.first
        last == IF r.last + 1 >= capacity(r) THEN 0 ELSE r.last + 1
    IN  [ring |-> [buffer |-> [r.buffer EXCEPT ![r.last] = data],
                   first |-> first, last |-> last, empty |-> FALSE],
         forced |-> forced]

\* RingBuffer::insert_force: the buffer afterwards, the value returned, and whether
\* the call panicked
insert_force(r, pos, data) ==
    LET len == ring_len(r)
        \* self[to] = self[from]
        copy(q, to, from) == index_mut(q, to, q.buffer[wrap_index(q, from)]).ring
        \* for i in (pos..len).rev() { self[i + 1] = self[i] }, from i downwards
        RECURSIVE shift_up(_, _)
        shift_up(q, i) == IF i < pos THEN q ELSE shift_up(copy(q, i + 1, i), i - 1)
        \* for i in 0..pos { self[i] = self[i + 1] }, from i upwards
        RECURSIVE shift_down(_, _)
        shift_down(q, i) == IF i >= pos THEN q ELSE shift_down(copy(q, i, i + 1), i + 1)
    IN  IF pos > len THEN [ring |-> r, forced |-> FALSE, panic |-> TRUE]
        ELSE IF r.empty \/ pos = len
        THEN [ring |-> push_force(r, data).ring, forced |-> push_force(r, data).forced,
              panic |-> FALSE]
        ELSE IF r.first # r.last
        THEN [ring |-> index_mut(shift_up(push(r, data).ring, len - 1), pos, data).ring,
              forced |-> FALSE, panic |-> FALSE]
        ELSE [ring |-> index_mut(shift_down(r, 0), pos, data).ring,
              forced |-> TRUE, panic |-> FALSE]

\* the values of the element type that the callers of the ring buffer push
RingValues == {0, 1}

\* the result of the last call; value is the argument of the call and, when some is
\* TRUE, the value try_pop returned; some is the bool of push_force and
\* insert_force; out becomes "panic" when the call panicked, and no call follows
RingResult(op, some, value) ==
    [op |-> op, some |-> some, value |-> value, out |-> "ok"]

\* the elements of the ring buffer, oldest first: get(0) .. get(len() - 1)
RingContents(r) ==
    [i \in 1 .. ring_len(r) |-> [val |-> r.buffer[wrap_index(r, i - 1)], tag |-> 0]]

(***************************************************************************)
(* The main loop of kmain and the interrupt queue (src/kernel/src/lib.rs,  *)
(* src/kernel/src/interrupt_queue.rs) on the one CPU of the kernel.  An    *)
(* interrupt handler runs from an interrupt gate, with the interrupts      *)
(* disabled, to its iretq: one step.  The loop is a step per statement,    *)
(* and a step per lock and unlock inside the calls of a dispatch.          *)
(***************************************************************************)
\* BUFFER_SIZE of the interrupt queue
QueueCap == 2

\* accepted messages are numbered modulo TagCount, so that the numbers of the queued
\* messages, of msg and of the message dispatched last differ
TagCount == QueueCap + 3

\* InterruptMessage: Timer() and Keyboard(data)
Timer == [kind |-> "Timer", data |-> 0]
Keyboard(data) == [kind |-> "Keyboard", data |-> data]

\* the interrupt lines of pic::set_mask in kmain that have a handler pushing a message
Lines == {"timer", "keyboard"}

\* the bytes the keyboard handler reads from the data port: the make code of Enter
\* and the break code of the letter A
KeyData == {28, 158}

\* keyboard.add_byte(data) and keyboard.process_keyevent(evt) of scancode set 1: a
\* make code gives a key (Enter: DecodedKey::Unicode), a break code gives none
process_keyevent(data) == data < 128

\* Terminal::input_begin: 0 as TERM is built.  Terminal::complete_input alone makes
\* it positive, from Terminal::process_input, which nothing calls.
input_begin == 0

\* what terminal::getline returns when no line is complete
NoLine == "Err(0)"

\* terminal::getline by the input_begin of the terminal
getline(begin) == IF begin = 0 THEN NoLine ELSE "Ok"

\* the calls of a dispatch that lock TERM, and the statement that follows each:
\* print! and print_cursor_status (line_info, print_status!) of keyboard_handler,
\* then the end of the handler; getline, then the top of the loop
TermReturn == [print |-> "line_info", line_info |-> "print_status",
               print_status |-> "keyboard_drop", getline |-> "disable"]

\* the ring buffer and the kernel as built, in the runs of the other components
KernelIdle ==
    /\ ring = new_with(1, 0)
    /\ rqueue = <<>>
    /\ rres = RingResult("new", FALSE, 0)
    /\ kpc = "disable"
    /\ kif = TRUE
    /\ kpending = {}
    /\ kmsg = [val |-> 0, tag |-> 0]
    /\ kdisp = TagCount - 1
    /\ knext = 0
    /\ klock = [keyboard |-> FALSE, term |-> FALSE, saved_intpt_flag |-> FALSE]

KernelUnused == UNCHANGED <<kpc, kif, kpending, kmsg, kdisp, knext, klock>>

\* RingBuffer::new_with for a capacity of 1 .. MaxCap
InitRingOf(caps) ==
    /\ \E cap \in caps : ring = new_with(cap, 0)
    /\ rqueue = <<>>
    /\ rres = RingResult("new", FALSE, 0)
    /\ kpc = "disable"
    /\ kif = TRUE
    /\ kpending = {}
    /\ kmsg = [val |-> 0, tag |-> 0]
    /\ kdisp = TagCount - 1
    /\ knext = 0
    /\ klock = [keyboard |-> FALSE, term |-> FALSE, saved_intpt_flag |-> FALSE]

\* ring.try_push(data)
RingTryPush(data) ==
    /\ rres.out = "ok"
    /\ LET r == try_push(ring, data)
       IN  /\ ring' = r.ring
           /\ rqueue' = IF r.some THEN Append(rqueue, [val |-> data, tag |-> 0])
                        ELSE rqueue
           /\ rres' = RingResult("try_push", r.some, data)
    /\ KernelUnused
    /\ UNCHANGED <<bvars, svars, ivars>>

\* ring.try_pop()
RingTryPop ==
    /\ rres.out = "ok"
    /\ LET r == try_pop(ring)
       IN  /\ ring' = r.ring
           /\ rqueue' = IF r.some THEN Tail(rqueue) ELSE rqueue
           /\ rres' = RingResult("try_pop", r.some, r.value)
    /\ KernelUnused
    /\ UNCHANGED <<bvars, svars, ivars>>

\* ring.pop()
RingPop ==
    /\ rres.out = "ok"
    /\ LET r == pop(ring)
       IN  /\ ring' = r.ring
           /\ rqueue' = RingContents(r.ring)
           /\ rres' = IF r.panic
                      THEN [RingResult("pop", FALSE, r.value) EXCEPT !.out = "panic"]
                      ELSE RingResult("pop", TRUE, r.value)
    /\ KernelUnused
    /\ UNCHANGED <<bvars, svars, ivars>>

\* ring.push(data)
RingPush(data) ==
    /\ rres.out = "ok"
    /\ LET r == push(ring, data)
       IN  /\ ring' = r.ring
           /\ rqueue' = RingContents(r.ring)
           /\ rres' = IF r.panic
                      THEN [RingResult("push", FALSE, data) EXCEPT !.out = "panic"]
                      ELSE RingResult("push", TRUE, data)
    /\ KernelUnused
    /\ UNCHANGED <<bvars, svars, ivars>>

\* ring.push_force(data)
RingPushForce(data) ==
    /\ rres.out = "ok"
    /\ LET r == push_force(ring, data)
       IN  /\ ring' = r.ring
           /\ rqueue' = RingContents(r.ring)
           /\ rres' = RingResult("push_force", r.forced, data)
    /\ KernelUnused
    /\ UNCHANGED <<bvars, svars, ivars>>

\* ring.insert_force(pos, data)
RingInsertForce(pos, data) ==
    /\ rres.out = "ok"
    /\ LET r == insert_force(ring, pos, data)
       IN  /\ ring' = r.ring
           /\ rqueue' = RingContents(r.ring)
           /\ rres' = IF r.panic
                      THEN [RingResult("insert_force", FALSE, data)
                               EXCEPT !.out = "panic"]
                      ELSE RingResult("insert_force", r.forced, data)
    /\ KernelUnused
    /\ UNCHANGED <<bvars, svars, ivars>>

\* ring[index] = data
RingIndexMut(index, data) ==
    /\ rres.out = "ok"
    /\ LET r == index_mut(ring, index, data)
       IN  /\ ring' = r.ring
           /\ rqueue' = RingContents(r.ring)
           /\ rres' = IF r.some THEN RingResult("index_mut", TRUE, data)
                      ELSE [RingResult("index_mut", FALSE, data) EXCEPT !.out = "panic"]
    /\ KernelUnused
    /\ UNCHANGED <<bvars, svars, ivars>>

NextRing ==
    \/ \E data \in RingValues : RingTryPush(data)
    \/ RingTryPop

\* every call that changes the ring buffer
NextRingAll ==
    \/ \E data \in RingValues : RingTryPush(data)
    \/ RingTryPop
    \/ RingPop
    \/ \E data \in RingValues : RingPush(data)
    \/ \E data \in RingValues : RingPushForce(data)
    \/ \E pos \in 0 .. MaxCap + 1, data \in RingValues : RingInsertForce(pos, data)
    \/ \E index \in 0 .. MaxCap, data \in RingValues : RingIndexMut(index, data)

\* the kernel after the initialisation of kmain: QUEUE empty, interrupts enabled
InitKernelOf(cap) ==
    /\ ring = new_with(cap, Timer)
    /\ rqueue = <<>>
    /\ rres = RingResult("new", FALSE, Timer)
    /\ kpc = "disable"
    /\ kif = TRUE
    /\ kpending = {}
    /\ kmsg = [val |-> Timer, tag |-> TagCount - 1]
    /\ kdisp = TagCount - 1
    /\ knext = 0
    /\ klock = [keyboard |-> FALSE, term |-> FALSE, saved_intpt_flag |-> FALSE]

\* interrupts::enable_and_hlt as a slip would write it: enable(), then hlt(), with
\* room for an interrupt in between
enable_then_hlt(flag) == [kif |-> TRUE, kpc |-> "hlt_only"]

\* interrupts::enable_and_hlt: sti; hlt.  No interrupt is delivered between the two
\* instructions, sti taking effect after the instruction that follows it.
enable_and_hlt(flag) == [kif |-> TRUE, kpc |-> "halted"]

\* intmsg_push(msg): the queue afterwards
intmsg_push(r, msg) ==
    IF ring_len(r) < capacity(r) THEN try_push(r, msg) ELSE [ring |-> r, some |-> FALSE]

\* intmsg_pop()
intmsg_pop(r) == try_pop(r)

\* the device of an interrupt line raises it; the PIC keeps it until it is delivered
KRaise(line) ==
    /\ line \notin kpending
    /\ kpending' = kpending \cup {line}
    /\ UNCHANGED <<ring, rqueue, rres, kpc, kif, kmsg, kdisp, knext, klock>>
    /\ UNCHANGED <<bvars, svars, ivars>>

\* timer_int_handler and keyboard_int_handler, delivered with the interrupts
\* enabled; a halted CPU goes on after the hlt, at the top of the loop
KDeliver(line, data) ==
    /\ kif
    /\ line \in kpending
    /\ LET msg == IF line = "timer" THEN Timer ELSE Keyboard(data)
           r == intmsg_push(ring, msg)
       IN  /\ ring' = r.ring
           /\ rqueue' = IF r.some THEN Append(rqueue, [val |-> msg, tag |-> knext])
                        ELSE rqueue
           /\ knext' = IF r.some THEN (knext + 1) % TagCount ELSE knext
           /\ rres' = RingResult("try_push", r.some, msg)
    /\ kpending' = kpending \ {line}
    /\ kpc' = IF kpc = "halted" THEN "disable" ELSE kpc
    /\ UNCHANGED <<kif, kmsg, kdisp, klock>>
    /\ UNCHANGED <<bvars, svars, ivars>>

\* interrupts::disable() at the top of the loop
KDisable ==
    /\ kpc = "disable"
    /\ kif' = FALSE
    /\ kpc' = "pop"
    /\ UNCHANGED <<ring, rqueue, rres, kpending, kmsg, kdisp, knext, klock>>
    /\ UNCHANGED <<bvars, svars, ivars>>

\* if let Some(msg) = intmsg_pop()
KPop ==
    /\ kpc = "pop"
    /\ LET r == intmsg_pop(ring)
       IN  /\ ring' = r.ring
           /\ rres' = RingResult("try_pop", r.some, r.value)
           /\ rqueue' = IF r.some THEN Tail(rqueue) ELSE rqueue
           /\ kmsg' = IF r.some THEN [val |-> r.value, tag |-> Head(rqueue).tag]
                      ELSE kmsg
           /\ kpc' = IF r.some THEN "enable" ELSE "hlt"
    /\ UNCHANGED <<kif, kpending, kdisp, knext, klock>>
    /\ UNCHANGED <<bvars, svars, ivars>>

\* interrupts::enable() of the branch that has a message
KEnable ==
    /\ kpc = "enable"
    /\ kif' = TRUE
    /\ kpc' = "match"
    /\ UNCHANGED <<ring, rqueue, rres, kpending, kmsg, kdisp, knext, klock>>
    /\ UNCHANGED <<bvars, svars, ivars>>

\* match msg: the call of timer_handler (TICK_COUNTER.fetch_add) and its return,
\* or the call of keyboard_handler up to its KEYBOARD.lock().  Nothing else locks
\* KEYBOARD.
KDispatch ==
    /\ kpc = "match"
    /\ kdisp' = kmsg.tag
    /\ IF kmsg.val.kind = "Timer"
       THEN /\ kpc' = "getline"
            /\ UNCHANGED klock
       ELSE /\ ~klock.keyboard
            /\ klock' = [klock EXCEPT !.keyboard = TRUE]
            /\ kpc' = "add_byte"
    /\ UNCHANGED <<ring, rqueue, rres, kif, kpending, kmsg, knext>>
    /\ UNCHANGED <<bvars, svars, ivars>>

\* keyboard_handler: if let Ok(Some(evt)) = add_byte(data), if let Some(key) =
\* process_keyevent(evt); a key is printed, without one the handler returns
KAddByte ==
    /\ kpc = "add_byte"
    /\ kpc' = IF process_keyevent(kmsg.val.data) THEN "print" ELSE "keyboard_drop"
    /\ UNCHANGED <<ring, rqueue, rres, kif, kpending, kmsg, kdisp, knext, klock>>
    /\ UNCHANGED <<bvars, svars, ivars>>

\* TERM.lock() of _print, line_info, _print_status and getline: IrqMutex::lock
\* saves the flag, disables the interrupts and locks the spin mutex, which is free
\* (the interrupt handlers do not lock TERM)
KTermLock ==
    /\ kpc \in DOMAIN TermReturn
    /\ ~klock.term
    /\ LET ig == InterruptGuard_lock(kif)
       IN  /\ kif' = ig.intr
           /\ klock' = [klock EXCEPT !.term = TRUE,
                                     !.saved_intpt_flag = ig.saved_intpt_flag]
    /\ UNCHANGED <<ring, rqueue, rres, kpc, kpending, kmsg, kdisp, knext>>
    /\ UNCHANGED <<bvars, svars, ivars>>

\* the rest of the call under the lock (the write to the terminal; in getline the
\* test of input_begin and return Err(0)) and the drop of the guard, which unlocks
\* and restores the flag.  if let Ok(input) does not match Err(0): the loop goes on
\* at its top.
KTermDrop ==
    /\ kpc \in DOMAIN TermReturn
    /\ klock.term
    /\ kpc = "getline" => getline(input_begin) = NoLine
    /\ kif' = InterruptGuard_drop(kif, klock.saved_intpt_flag)
    /\ klock' = [klock EXCEPT !.term = FALSE, !.saved_intpt_flag = FALSE]
    /\ kpc' = TermReturn[kpc]
    /\ UNCHANGED <<ring, rqueue, rres, kpending, kmsg, kdisp, knext>>
    /\ UNCHANGED <<bvars, svars, ivars>>

\* the end of keyboard_handler: the guard of KEYBOARD is dropped
KKeyboardDrop ==
    /\ kpc = "keyboard_drop"
    /\ klock' = [klock EXCEPT !.keyboard = FALSE]
    /\ kpc' = "getline"
    /\ UNCHANGED <<ring, rqueue, rres, kif, kpending, kmsg, kdisp, knext>>
    /\ UNCHANGED <<bvars, svars, ivars>>

\* interrupts::enable_and_hlt() of the branch that has no message
KEnableAndHlt ==
    /\ kpc \in {"hlt", "hlt_only"}
    /\ LET r == IF kpc = "hlt" THEN enable_and_hlt(kif)
                ELSE [kif |-> kif, kpc |-> "halted"]
       IN  kif' = r.kif /\ kpc' = r.kpc
    /\ UNCHANGED <<ring, rqueue, rres, kpending, kmsg, kdisp, knext, klock>>
    /\ UNCHANGED <<bvars, svars, ivars>>

\* a step of the loop of kmain
KMain ==
    \/ KDisable
    \/ KPop
    \/ KEnable
    \/ KDispatch
    \/ KAddByte
    \/ KTermLock
    \/ KTermDrop
    \/ KKeyboardDrop
    \/ KEnableAndHlt

NextKernel ==
    \/ \E line \in Lines : KRaise(line)
    \/ \E line \in Lines, data \in KeyData : KDeliver(line, data)
    \/ KDisable
    \/ KPop
    \/ KEnable
    \/ KDispatch
    \/ KAddByte
    \/ KTermLock
    \/ KTermDrop
    \/ KKeyboardDrop
    \/ KEnableAndHlt

\* the buddy allocator of the runs in which only the slab allocator is called
BuddyIdle ==
    /\ LET inf == InfoNew(256 * UNIT_SIZE, 3 * UNIT_SIZE)
       IN  /\ info = [raw_addr |-> inf.raw_addr, total_len |-> inf.total_len,
                      metadata_len |-> inf.metadata_len,
                      data_offset |-> inf.data_offset,
                      units |-> inf.units, levels |-> inf.levels]
           /\ bitmaps = BuddyNew(inf)
    /\ used = 0
    /\ blive = EmptyBag
    /\ bfreed = {}
    /\ bres = [op |-> "new", addr |-> None, len |-> 0, ret |-> None, out |-> "ok",
               wraps |-> FALSE]

InitSlabOf(configs, providers) ==
    /\ \E c \in configs :
          LET sl == SlabNew(c[1], c[2])
          IN  /\ ~sl.panic
              /\ slab = [payload_size |-> sl.payload_size,
                         payload_align |-> sl.payload_align,
                         front_size |-> sl.front_size,
                         object_size |-> sl.object_size]
    /\ hdr = [a \in {AvailAddr} \cup PageAddrs |->
                [prev |-> Null, next |-> Null, free |-> 0, count |-> 0]]
    /\ obj = [p \in PageAddrs |->
                [off \in SlotOffsets(slab) |->
                    [magic |-> 0, next |-> 0,
                     bytes |-> [i \in SlotBytes(slab) |-> 0]]]]
    /\ provider \in providers
    /\ held = {}
    /\ returned = {}
    /\ slive = EmptyBag
    /\ sfreed = {}
    /\ scorrupt = NoCorrupt
    /\ uaf = FALSE
    /\ starved = FALSE
    /\ sres = [op |-> "new", ptr |-> None, ret |-> None, out |-> "ok",
               page |-> None, held |-> FALSE]

\* the slab allocators run; the buddy allocator is left as built
InitSlab == InitSlabOf(SlabConfigs, Providers) /\ BuddyIdle /\ IrqIdle /\ KernelIdle

\* the slab allocators whose payloads the caller writes, with the provider of the
\* tests: a payload that starts on a word of the page, and one that does not in
\* every slot
InitPayload ==
    InitSlabOf({<<1300, 8>>, <<2000, 1>>}, {"mock"}) /\ BuddyIdle /\ IrqIdle /\ KernelIdle

\* the allocator of three slots in a page, with the provider of MaxAddrs pages
InitPages == InitSlabOf({<<1300, 8>>}, {"all_pages"}) /\ BuddyIdle /\ IrqIdle /\ KernelIdle

\* the allocators whose redzones are checked: every alignment up to 64, payloads
\* that end on and off an object boundary, one to three slots per page
RedzoneConfigs ==
    {<<2000, 1>>, <<2001, 2>>, <<2000, 4>>, <<1300, 8>>, <<2000, 16>>, <<1900, 32>>,
     <<1000, 64>>}

InitRedzone == InitSlabOf(RedzoneConfigs, {"mock"}) /\ BuddyIdle /\ IrqIdle /\ KernelIdle

\* the allocators whose layout is checked: payloads from one byte to the largest
\* the constructor accepts, every alignment it accepts, up to MaxLayoutSlots slots
\* in a page
LayoutConfigs ==
    {c \in {1, 100, 1000, 1008, 2000, 2027} \X {2 ^ k : k \in 0 .. 10} :
        LET sl == SlabNew(c[1], c[2])
        IN  ~sl.panic /\ Cardinality(SlotOffsets(sl)) <= MaxLayoutSlots}

InitLayout == InitSlabOf(LayoutConfigs, {"one_page"}) /\ BuddyIdle /\ IrqIdle /\ KernelIdle

\* the slab touched a header or page outside avail_start and the pages it holds
Touched(M, mine) == M.acc \ ({AvailAddr} \cup mine) # {}

\* the caller has written through a pointer it has given back, and the slot has not
\* been handed out since
DanglingPending ==
    /\ sres.out = "ok"
    /\ scorrupt.kind = "dangling"
    /\ ~BagIn(scorrupt.ptr, slive)

\* slab.alloc(); provided is the page the provider would return (None: no page)
SlabAlloc(provided) ==
    /\ SlabRunning \/ DanglingPending
    /\ IF page_list_is_tail(Memory, AvailAddr) THEN provided \in ProviderAllocate
       ELSE provided = None
    /\ \E overflow_checks \in Profiles(hdr[AvailAddr].next, 65535) :
       \E r \in {slab_alloc(Memory, provided, overflow_checks)} :
       LET took == IF provided = None THEN {} ELSE {provided}
       IN  /\ hdr' = r.M.hdr
           /\ obj' = r.M.obj
           /\ held' = held \cup took
           /\ returned' = returned \ took
           /\ uaf' = (uaf \/ Touched(r.M, held \cup took))
           /\ starved' = (starved \/ (page_list_is_tail(Memory, AvailAddr)
                                         /\ provided = None))
           /\ slive' = IF r.ret = None THEN slive ELSE slive (+) SetToBag({r.ret})
           /\ sfreed' = sfreed \ {r.ret}
           /\ sres' = [op |-> "alloc", ptr |-> None, ret |-> r.ret, out |-> r.M.out,
                       page |-> provided, held |-> FALSE]
    /\ UNCHANGED <<slab, provider, scorrupt, bvars, ivars, kvars>>

\* the paddings that matter to a call: zero and not zero when the header of a page
\* held holds the address of the page but for its padding, one otherwise
Paddings(M) ==
    IF \E q \in held : M.hdr[q].free + 65536 * M.hdr[q].count = q
    THEN HeaderPadding ELSE {0}

\* the effect of slab.dealloc(ptr) on the memory and on the provider
Freeing(ptr, overflow_checks, op) ==
    \* r: what slab.dealloc did; R: the memory when the provider is called; C: the
    \* memory when the provider has returned (each a single value)
    \E r \in {slab_dealloc(Memory, ptr, overflow_checks)} :
    \* deallocate of a page the provider has not handed out is undefined
    \E R \in {IF r.returned # None /\ r.returned \notin held
               THEN Fail(r.M, "wild") ELSE r.M} :
    \E padding \in Paddings(R) :
    \E C \in {IF r.returned # None /\ R.out = "ok"
               THEN PageContent(R, r.returned, padding) ELSE R} :
            /\ hdr' = C.hdr
            /\ obj' = C.obj
            /\ held' = IF R.out = "ok" THEN held \ {r.returned} ELSE held
            /\ returned' = IF r.returned # None /\ C.out = "ok"
                           THEN returned \cup {r.returned} ELSE returned
            /\ uaf' = (uaf \/ Touched(r.M, held))
            /\ sres' = [op |-> op, ptr |-> ptr, ret |-> None, out |-> C.out,
                        page |-> r.returned,
                        held |-> page_from_object(ptr) \in held]

\* slab.dealloc(ptr) of a pointer the caller holds
SlabDealloc(ptr) ==
    /\ SlabRunning \/ (sres.out = "ok" /\ scorrupt.ptr = ptr)
    /\ BagIn(ptr, slive)
    /\ \E overflow_checks \in Profiles(page_from_object(ptr), 0) :
          Freeing(ptr, overflow_checks, "dealloc")
    /\ slive' = slive (-) SetToBag({ptr})
    /\ sfreed' = {ptr}
    /\ UNCHANGED <<slab, provider, scorrupt, starved, bvars, ivars, kvars>>

\* slab.dealloc(ptr) a second time, no alloc having returned ptr in between
SlabDoubleFree(ptr) ==
    /\ SlabRunning
    /\ ptr \in sfreed
    /\ \E overflow_checks \in Profiles(page_from_object(ptr), 0) :
          Freeing(ptr, overflow_checks, "double_free")
    /\ UNCHANGED <<slab, provider, slive, sfreed, scorrupt, starved, bvars, ivars, kvars>>

\* the caller writes the byte in front of the payload it has just received
SlabUnderflowWrite(ptr, byte) ==
    /\ SlabRunning
    /\ sres.op = "alloc" /\ sres.ret = ptr
    /\ IsSlot(Memory, ptr - slab.front_size)
    /\ obj' = [obj EXCEPT ![page_from_object(ptr)][OffsetOf(ptr - slab.front_size)]
                              .bytes[slab.front_size - 1] = byte]
    /\ scorrupt' = [ptr |-> ptr, kind |-> "underflow", k |-> 0]
    /\ sres' = [op |-> "write", ptr |-> ptr, ret |-> None, out |-> "ok",
                page |-> None, held |-> page_from_object(ptr) \in held]
    /\ UNCHANGED <<slab, provider, hdr, held, returned, slive, sfreed, uaf, starved,
                   bvars, ivars, kvars>>

\* the caller writes the byte k bytes behind the end of the payload it has just
\* received
SlabOverflowWrite(ptr, k, byte) ==
    /\ SlabRunning
    /\ sres.op = "alloc" /\ sres.ret = ptr
    /\ IsSlot(Memory, ptr - slab.front_size)
    /\ obj' = [obj EXCEPT ![page_from_object(ptr)][OffsetOf(ptr - slab.front_size)]
                              .bytes[right_offset(slab) + k] = byte]
    /\ scorrupt' = [ptr |-> ptr, kind |-> "overflow", k |-> k]
    /\ sres' = [op |-> "write", ptr |-> ptr, ret |-> None, out |-> "ok",
                page |-> None, held |-> page_from_object(ptr) \in held]
    /\ UNCHANGED <<slab, provider, hdr, held, returned, slive, sfreed, uaf, starved,
                   bvars, ivars, kvars>>

\* the caller writes payload byte k of the slot it has given back last, through the
\* pointer it has kept, while the slab holds the page
SlabDanglingWrite(ptr, k, byte) ==
    /\ SlabRunning
    /\ ptr \in sfreed
    /\ page_from_object(ptr) \in held
    /\ IsSlot(Memory, ptr - slab.front_size)
    /\ obj[page_from_object(ptr)][OffsetOf(ptr - slab.front_size)]
           .bytes[slab.front_size + k] # byte
    /\ obj' = [obj EXCEPT ![page_from_object(ptr)][OffsetOf(ptr - slab.front_size)]
                              .bytes[slab.front_size + k] = byte]
    /\ scorrupt' = [ptr |-> ptr, kind |-> "dangling", k |-> k]
    /\ sres' = [op |-> "write", ptr |-> ptr, ret |-> None, out |-> "ok",
                page |-> None, held |-> TRUE]
    /\ UNCHANGED <<slab, provider, hdr, held, returned, slive, sfreed, uaf, starved,
                   bvars, ivars, kvars>>

\* the words of the payloads in the pages held that the caller has written: a byte
\* of theirs behind the first payload byte, which dealloc writes, is not zero
WrittenWords ==
    UNION {UNION {{<<q, off, w>> : w \in {x \in PayloadWords(slab, off) :
                                            \E k \in 0 .. 7 :
                                               /\ x - off + k # slab.front_size
                                               /\ obj[q][off].bytes[x - off + k] # 0}} :
                  off \in DOMAIN obj[q]} : q \in held}

\* the caller writes the usize value into the word at offset w of the page, within
\* the payload of the allocation ptr it holds; at most MaxWritten words are written
SlabPayloadWrite(ptr, w, value) ==
    /\ SlabRunning
    /\ BagIn(ptr, slive)
    /\ IsSlot(Memory, ptr - slab.front_size)
    /\ LET page == page_from_object(ptr)
           off == OffsetOf(ptr - slab.front_size)
       IN  /\ w \in PayloadWords(slab, off)
           /\ ~WordIs(obj[page][off], off, w, value)
           /\ Cardinality(WrittenWords \ {<<page, off, w>>}) < MaxWritten
           /\ obj' = [obj EXCEPT ![page][off].bytes =
                         [i \in DOMAIN @ |->
                            IF i \in w - off .. w - off + 7
                            THEN usize_byte(value, i - (w - off)) ELSE @[i]]]
    /\ UNCHANGED <<slab, provider, hdr, held, returned, slive, sfreed, scorrupt, uaf,
                   starved, sres, bvars, ivars, kvars>>

(***************************************************************************)
(* The full-page cycle of test_slab_alloc_dealloc_full_page_cycle: on a    *)
(* slab with nothing live, allocs up to one more than a page holds, then   *)
(* the dealloc of every pointer, then allocs again                         *)
(***************************************************************************)
\* the number of slots the test expects in a page
chunks_per_page(sl) == (PAGE_SIZE - page_offset(sl)) \div sl.object_size

\* the allocs of a round are under way
CycleAllocating == sres.op \in {"new", "alloc"} \/ slive = EmptyBag

\* the next alloc() of the round; the provider supplies a page when it is asked
CycleAlloc(provided) ==
    /\ CycleAllocating
    /\ BagCardinality(slive) < chunks_per_page(slab) + 1
    /\ page_list_is_tail(Memory, AvailAddr) => provided # None
    /\ SlabAlloc(provided)

\* the dealloc of a pointer of the round, once chunks_per_page + 1 are live
CycleDealloc(ptr) ==
    /\ sres.op = "dealloc" \/ BagCardinality(slive) = chunks_per_page(slab) + 1
    /\ SlabDealloc(ptr)

NextCycle ==
    \/ \E provided \in PageAddrs \cup {None} : CycleAlloc(provided)
    \/ \E ptr \in BagToSet(slive) : CycleDealloc(ptr)

\* the callers that fill a page: alloc(), or the dealloc of the pointer alloc has
\* just returned
NextLayout ==
    \/ \E provided \in PageAddrs \cup {None} : SlabAlloc(provided)
    \/ \E ptr \in BagToSet(slive) : sres.ret = ptr /\ SlabDealloc(ptr)

\* dealloc() of any live pointer at any time (as the test of interleaved pages
\* calls it, from any number of live pointers on).  The run is followed through
\* further frees up to the first use of a page the slab has returned (undefined
\* behaviour); from there on through the allocs.
PagesDealloc(ptr) ==
    /\ ~uaf
    /\ SlabDealloc(ptr)

NextPages ==
    \/ \E provided \in PageAddrs \cup {None} : SlabAlloc(provided)
    \/ \E ptr \in BagToSet(slive) : PagesDealloc(ptr)

NextSlab ==
    \/ \E provided \in PageAddrs \cup {None} : SlabAlloc(provided)
    \/ \E ptr \in BagToSet(slive) : SlabDealloc(ptr)
    \/ \E ptr \in sfreed : SlabDoubleFree(ptr)

\* the calls of NextSlab and the caller's writes to the payloads it holds
NextPayload ==
    \/ \E provided \in PageAddrs \cup {None} : SlabAlloc(provided)
    \/ \E ptr \in BagToSet(slive) : SlabDealloc(ptr)
    \/ \E ptr \in sfreed : SlabDoubleFree(ptr)
    \/ \E ptr \in BagToSet(slive), value \in PageAddrs :
          \E w \in PayloadWords(slab, OffsetOf(ptr - slab.front_size)) :
             SlabPayloadWrite(ptr, w, value)

NextRedzone ==
    \/ \E provided \in PageAddrs \cup {None} : SlabAlloc(provided)
    \/ \E ptr \in BagToSet(slive) : SlabDealloc(ptr)
    \/ \E ptr \in BagToSet(slive), byte \in BadBytes : SlabUnderflowWrite(ptr, byte)
    \/ \E ptr \in BagToSet(slive), k \in 0 .. REDZONE_SIZE - 1, byte \in BadBytes :
          SlabOverflowWrite(ptr, k, byte)
    \/ \E ptr \in sfreed, byte \in BadBytes :
          \E k \in {0, slab.payload_size - 1} : SlabDanglingWrite(ptr, k, byte)

(***************************************************************************)
(* The callers of the buddy allocator                                      *)
(***************************************************************************)
\* base address of the managed region (unit-aligned)
RawAddr == 256 * UNIT_SIZE

\* unit-aligned region lengths that BuddyBlock::new accepts
RegionLens ==
    {l \in {k * UNIT_SIZE : k \in 1 .. MaxRegionUnits} : ~InfoNew(RawAddr, l).panic}

\* the byte lengths callers ask for: unaligned, aligned, not a power of two, too large
ReqLens == {1, UNIT_SIZE, UNIT_SIZE + 1, 3 * UNIT_SIZE, 4 * UNIT_SIZE, 8 * UNIT_SIZE}

\* level i* that serves a request of len bytes
LevelOf(len) == bitmap_index_for_size(div_ceil(len, UNIT_SIZE) * UNIT_SIZE)

\* the block [lo, hi) that an allocation occupies
BlockLo(a) == a.addr
BlockHi(a) == a.addr + UNIT_SIZE * (2 ^ LevelOf(a.len))

Overlap(a, b) == BlockLo(a) < BlockHi(b) /\ BlockLo(b) < BlockHi(a)

BuddyRunning == bres.out = "ok" /\ bres.op \in {"new", "alloc", "dealloc"}

InitBuddyOf(lens) ==
    /\ \E l \in lens :
          LET inf == InfoNew(RawAddr, l)
          IN  /\ info = [raw_addr |-> inf.raw_addr, total_len |-> inf.total_len,
                         metadata_len |-> inf.metadata_len,
                         data_offset |-> inf.data_offset,
                         units |-> inf.units, levels |-> inf.levels]
              /\ bitmaps = BuddyNew(inf)
    /\ used = 0
    /\ blive = EmptyBag
    /\ bfreed = {}
    /\ bres = [op |-> "new", addr |-> None, len |-> 0, ret |-> None, out |-> "ok",
                wraps |-> FALSE]

\* the slab allocator of the runs in which only the buddy allocator is called
SlabIdle == InitSlabOf({<<2000, 16>>}, {"mock"})

\* the buddy allocators run; the slab allocator is left as built
InitBuddy == InitBuddyOf(RegionLens) /\ SlabIdle /\ IrqIdle /\ KernelIdle

\* the unit-aligned region lengths that BuddyBlock::new is called with, those it
\* rejects included
ConstructLens == {k * UNIT_SIZE : k \in 0 .. MaxRegionUnits}

\* BuddyBlock::new(RawAddr, l); a panic of BuddyBlockInfo::new leaves no allocator
InitConstructOf(lens) ==
    /\ \E l \in lens :
          LET inf == InfoNew(RawAddr, l)
          IN  /\ info = [raw_addr |-> inf.raw_addr, total_len |-> inf.total_len,
                         metadata_len |-> inf.metadata_len,
                         data_offset |-> inf.data_offset,
                         units |-> inf.units, levels |-> inf.levels]
              /\ bitmaps = IF inf.panic THEN <<>> ELSE BuddyNew(inf)
              /\ bres = [op |-> "new", addr |-> None, len |-> 0, ret |-> None,
                         out |-> IF inf.panic THEN "panic" ELSE "ok", wraps |-> FALSE]
    /\ used = 0
    /\ blive = EmptyBag
    /\ bfreed = {}

InitConstruct == InitConstructOf(ConstructLens) /\ SlabIdle /\ IrqIdle /\ KernelIdle

\* buddy.alloc(len)
BuddyAlloc(len) ==
    /\ BuddyRunning
    /\ LET r == alloc(len)
           a == [addr |-> r.ret, len |-> len]
       IN  /\ used' = r.used
           /\ bitmaps' = r.bitmaps
           /\ bres' = [op |-> "alloc", addr |-> None, len |-> len, ret |-> r.ret,
                       out |-> r.out, wraps |-> FALSE]
           /\ blive' = IF r.ret = None THEN blive ELSE blive (+) SetToBag({a})
           /\ bfreed' = IF r.ret = None THEN bfreed
                        ELSE {f \in bfreed : ~Overlap(f, a)}
    /\ UNCHANGED <<info, svars, ivars, kvars>>

\* buddy.dealloc(a.addr, a.len) of an allocation the caller holds
BuddyDealloc(a) ==
    /\ BuddyRunning
    /\ BagIn(a, blive)
    /\ \E overflow_checks \in BOOLEAN :
       LET r == dealloc(a.addr, a.len, overflow_checks)
       IN  /\ used' = r.used
           /\ bitmaps' = r.bitmaps
           /\ bres' = [op |-> "dealloc", addr |-> a.addr, len |-> a.len, ret |-> None,
                       out |-> r.out, wraps |-> r.wraps]
    /\ blive' = blive (-) SetToBag({a})
    /\ \E remember \in BOOLEAN : bfreed' = IF remember THEN {a} ELSE bfreed
    /\ UNCHANGED <<info, svars, ivars, kvars>>

\* buddy.dealloc(a.addr, a.len) a second time: the block was given back and none of
\* its units has been handed out since
BuddyDoubleFree(a) ==
    /\ BuddyRunning
    /\ a \in bfreed
    /\ \E overflow_checks \in BOOLEAN :
       LET r == dealloc(a.addr, a.len, overflow_checks)
       IN  /\ used' = r.used
           /\ bitmaps' = r.bitmaps
           /\ bres' = [op |-> "double_free", addr |-> a.addr, len |-> a.len,
                       ret |-> None, out |-> r.out, wraps |-> r.wraps]
    /\ UNCHANGED <<info, blive, bfreed, svars, ivars, kvars>>

\* buddy.dealloc(a.addr, len) of a held allocation with a length of another level
BuddyMismatchFree(a, len) ==
    /\ BuddyRunning
    /\ BagIn(a, blive)
    /\ LevelOf(len) # LevelOf(a.len)
    /\ \E overflow_checks \in BOOLEAN :
       LET r == dealloc(a.addr, len, overflow_checks)
       IN  /\ used' = r.used
           /\ bitmaps' = r.bitmaps
           /\ bres' = [op |-> "mismatch_free", addr |-> a.addr, len |-> len,
                       ret |-> None, out |-> r.out, wraps |-> r.wraps]
    /\ UNCHANGED <<info, blive, bfreed, svars, ivars, kvars>>

(***************************************************************************)
(* The level-by-level sequence of test_seq: on an allocator with nothing   *)
(* live, units >> level allocations of (UNIT_SIZE << level) - 1 bytes, then *)
(* the dealloc of each of them, for a level after the other                *)
(***************************************************************************)
\* the length asked for in the batch of a level
SeqLen(level) == UNIT_SIZE * (2 ^ level) - 1

\* the number of allocations of the batch of a level
SeqCount(level) == info.units \div (2 ^ level)

\* the batch that is under way allocates
SeqAllocating == bres.op \in {"new", "alloc"} \/ blive = EmptyBag

\* the next alloc(size - 1) of the batch of the level
SeqAlloc(level) ==
    /\ SeqAllocating
    /\ \A a \in BagToSet(blive) : a.len = SeqLen(level)
    /\ BagCardinality(blive) < SeqCount(level)
    /\ BuddyAlloc(SeqLen(level))

\* the dealloc of a block of the batch, once the batch has been allocated in full
SeqDealloc(a) ==
    /\ \/ bres.op = "dealloc"
       \/ \E level \in 0 .. info.levels - 1 :
             a.len = SeqLen(level) /\ BagCardinality(blive) = SeqCount(level)
    /\ BuddyDealloc(a)

NextSeq ==
    \/ \E level \in 0 .. info.levels - 1 : SeqAlloc(level)
    \/ \E a \in BagToSet(blive) : SeqDealloc(a)

(***************************************************************************)
(* The deallocation of test_seq: dealloc(addr + 1, size - 1) for the block *)
(* of size bytes at addr, size the unit-aligned length it was asked with   *)
(***************************************************************************)
\* buddy.dealloc(a.addr + 1, size - 1) of an allocation the caller holds
BuddyDeallocUnaligned(a) ==
    /\ BuddyRunning
    /\ BagIn(a, blive)
    /\ \E overflow_checks \in BOOLEAN :
       LET size == div_ceil(a.len, UNIT_SIZE) * UNIT_SIZE
           r == dealloc(a.addr + 1, size - 1, overflow_checks)
       IN  /\ used' = r.used
           /\ bitmaps' = r.bitmaps
           /\ bres' = [op |-> "dealloc", addr |-> a.addr + 1, len |-> size - 1,
                       ret |-> None, out |-> r.out, wraps |-> r.wraps]
    /\ blive' = blive (-) SetToBag({a})
    /\ UNCHANGED <<info, bfreed, svars, ivars, kvars>>

NextUnaligned ==
    \/ \E len \in ReqLens : BuddyAlloc(len)
    \/ \E a \in BagToSet(blive) : BuddyDeallocUnaligned(a)

NextBuddy ==
    \/ \E len \in ReqLens : BuddyAlloc(len)
    \/ \E a \in BagToSet(blive) : BuddyDealloc(a)
    \/ \E a \in bfreed : BuddyDoubleFree(a)
    \/ \E a \in BagToSet(blive), len \in ReqLens : BuddyMismatchFree(a, len)



(***************************************************************************)
(* Specifications: each component runs alone, the other left as built      *)
(***************************************************************************)
vars == <<bvars, svars, ivars, kvars>>

SpecBuddy == InitBuddy /\ [][NextBuddy]_vars

SpecBuddySeq == InitBuddy /\ [][NextSeq]_vars

SpecBuddyUnaligned == InitBuddy /\ [][NextUnaligned]_vars

SpecConstruct == InitConstruct /\ [][NextSeq]_vars

SpecSlab == InitSlab /\ [][NextSlab]_vars

SpecPayload == InitPayload /\ [][NextPayload]_vars

SpecSlabCycle == InitSlab /\ [][NextCycle]_vars

SpecSlabPages == InitPages /\ [][NextPages]_vars

SpecLayout == InitLayout /\ [][NextLayout]_vars

\* the mutexes are locked and unlocked; both allocators are left as built
InitIrq == IrqIdle /\ BuddyIdle /\ SlabIdle /\ KernelIdle

SpecIrq == InitIrq /\ [][NextIrq]_vars

InitRing == InitRingOf(1 .. MaxCap) /\ BuddyIdle /\ SlabIdle /\ IrqIdle

SpecRing == InitRing /\ [][NextRing]_vars

SpecRingAll == InitRing /\ [][NextRingAll]_vars

InitKernel == InitKernelOf(QueueCap) /\ BuddyIdle /\ SlabIdle /\ IrqIdle

SpecKernel == InitKernel /\ [][NextKernel]_vars

\* the CPU goes on executing the loop of kmain whenever it is not halted
FairKernel == SpecKernel /\ WF_vars(KMain)

SpecRedzone == InitRedzone /\ [][NextRedzone]_vars

(***************************************************************************)
(* Claims about the buddy allocator                                        *)
(***************************************************************************)
BuddyValid == bres.op \in {"new", "alloc", "dealloc"}

\* C3: in every valid alloc/dealloc sequence on a unit-aligned region the blocks
\* [addr, addr + (unit_size << i*)) of the live allocations are pairwise disjoint
\* (no block is held twice) and each lies inside [data_base, data_base + data_len).
C3_LiveBlocksDisjoint ==
    BuddyValid =>
        /\ \A a \in BagToSet(blive) :
              /\ CopiesIn(a, blive) = 1
              /\ data_addr <= BlockLo(a)
              /\ BlockHi(a) <= data_addr + data_len
        /\ \A a, b \in BagToSet(blive) : a # b => ~Overlap(a, b)

\* C3 witness: after a dealloc allocations of two different levels are live
C3_Witness ==
    /\ bres.op = "dealloc" /\ bres.out = "ok"
    /\ BagCardinality(blive) >= 2
    /\ \E a, b \in BagToSet(blive) : LevelOf(a.len) # LevelOf(b.len)

\* C6: dealloc of a block that was already freed and not allocated again since
\* panics, in every reachable state (stated for the calls in which the used counter
\* does not underflow: whether those panic depends on the build profile alone).
C6_DoubleFreePanics == bres.op = "double_free" /\ ~bres.wraps => bres.out = "panic"

\* C7: dealloc(addr, len) panics when len maps to another level than the length the
\* block at addr was allocated with (stated for the calls in which the used counter
\* does not underflow).
C7_MismatchFreePanics == bres.op = "mismatch_free" /\ ~bres.wraps => bres.out = "panic"

(***************************************************************************)
(* Claims about the slab allocator                                         *)
(***************************************************************************)
\* the last call was an alloc or a dealloc of a pointer the caller held
SlabValid == sres.op \in {"alloc", "dealloc"}

\* the address reached from avail_start after n next links (Null once the list ends)
RECURSIVE ListAt(_)
ListAt(n) == IF n = 0 THEN AvailAddr ELSE NextOf(Memory, ListAt(n - 1))

\* the pages on the partially-used list, as far as MaxPages + 1 links lead
ListPages == {ListAt(n) : n \in 1 .. MaxPages + 1} \ {Null}

\* the list ends: a list of distinct pages has ended after MaxPages links
ListEnds == ListAt(MaxPages + 1) = Null

\* C1: in a sequence of alloc() and valid dealloc(p) calls in which the provider
\* supplies a page whenever it is asked, no call panics.
C1_ValidNeverPanics ==
    SlabValid /\ ~starved /\ ~uaf => sres.out # "panic"

\* C2: after every completed alloc or dealloc of a valid sequence the partially-used
\* list reached from avail_start through the next links is finite (cycle-free) and
\* contains each page at most once.
C2_ListCycleFree ==
    SlabValid /\ sres.out = "ok" /\ ~uaf => ListEnds

\* C4: in every valid alloc/dealloc sequence every page reachable from the
\* partially-used list is a page the slab holds, and the slab never reads or writes
\* a page it does not hold (one it has returned to the provider).
C4_OnlyHeldPagesTouched ==
    SlabValid => ~uaf /\ (sres.out = "ok" => ListPages \subseteq held)

\* C5: in every valid alloc/dealloc sequence the pointers of the live allocations
\* are pairwise distinct (no slot is handed out twice without a dealloc of it in
\* between) and their payload ranges are pairwise disjoint.
C5_NoSlotHandedOutTwice ==
    SlabValid =>
        /\ \A p \in BagToSet(slive) : CopiesIn(p, slive) = 1
        /\ \A p, q \in BagToSet(slive) :
              p # q => p + slab.payload_size <= q \/ q + slab.payload_size <= p

\* C8: for every valid (S, A), a byte different from REDZONE_FILL written at
\* payload - 1 of a live allocation makes the dealloc of that allocation panic.
C8_UnderflowPanics ==
    sres.op = "dealloc" /\ scorrupt.kind = "underflow" /\ scorrupt.ptr = sres.ptr
        => sres.out = "panic"

\* C9: for every valid (S, A), a byte different from REDZONE_FILL written to any of
\* the REDZONE_SIZE bytes that follow the payload of a live allocation (from
\* payload + S on) makes the dealloc of that allocation panic.
C9_OverflowPanics ==
    sres.op = "dealloc" /\ scorrupt.kind = "overflow" /\ scorrupt.ptr = sres.ptr
        => sres.out = "panic"

\* C9 witness: the last byte of the redzone behind the payload of an allocator with
\* padding in front of the payload was overwritten, and the dealloc panicked
C9_Witness ==
    /\ sres.op = "dealloc" /\ sres.out = "panic"
    /\ scorrupt.kind = "overflow" /\ scorrupt.ptr = sres.ptr
    /\ scorrupt.k = REDZONE_SIZE - 1
    /\ slab.payload_align >= 8

\* C10: calling dealloc(p) a second time on the same pointer, with no alloc in
\* between that returned p again, panics on the second call.
C10_DoubleFreePanics ==
    sres.op = "double_free" => sres.out = "panic"

\* C11: after dealloc(p), a payload byte of the freed slot overwritten through the
\* dangling pointer p (the page still held) makes the alloc that next pops the slot
\* panic: the slot is not handed out.
C11_DanglingWritePanics ==
    sres.op = "alloc" /\ scorrupt.kind = "dangling" => sres.ret # scorrupt.ptr

(***************************************************************************)
(* Further claims about the buddy allocator                                *)
(***************************************************************************)
\* level j has a block marked free (a bit set in its bitmap)
HasFreeBlock(j) == \E i \in DOMAIN bitmaps[j + 1].bits : bitmaps[j + 1].bits[i] # 0

\* no level from the one that serves len upwards has a free block
NoBlockFor(len) ==
    \/ LevelOf(len) >= info.levels
    \/ \A j \in LevelOf(len) .. info.levels - 1 : ~HasFreeBlock(j)

\* C12: alloc(byte_len), byte_len > 0, returns none exactly when the target level is
\* at or above the number of levels or no level from the target level upwards has a
\* free block; it then does not panic and leaves every bitmap, every count and used
\* unchanged; otherwise it returns an address.
C12_AllocNoneExactly ==
    [][bres'.op = "alloc" =>
          /\ bres'.out = "ok"
          /\ (bres'.ret = None) <=> NoBlockFor(bres'.len)
          /\ bres'.ret = None => bitmaps' = bitmaps /\ used' = used
          /\ bres'.ret # None => bres'.ret >= data_addr]_vars

\* C12 witness: an alloc of a length that some level serves returned none because
\* every block from that level upwards was taken
C12_Witness ==
    /\ bres.op = "alloc" /\ bres.ret = None /\ bres.out = "ok"
    /\ LevelOf(bres.len) < info.levels
    /\ BagCardinality(blive) >= 2

(***************************************************************************)
(* Further claims about the slab allocator                                 *)
(***************************************************************************)
\* C13: alloc() returns none exactly when the partially-used list is empty and
\* provider.allocate() returns none; the list, every held page and the set of held
\* pages are then unchanged; whenever the list is non-empty alloc returns a pointer
\* without calling the provider.
C13_AllocNoneExactly ==
    [][sres'.op = "alloc" /\ ~uaf =>
          /\ (sres'.ret = None) <=> (NextOf(Memory, AvailAddr) = Null /\ sres'.page = None)
          /\ sres'.ret = None => hdr' = hdr /\ obj' = obj /\ held' = held
          /\ NextOf(Memory, AvailAddr) # Null => sres'.page = None /\ held' = held]_vars

(***************************************************************************)
(* Further claims about the buddy allocator: bitmaps and accounting        *)
(***************************************************************************)
\* C14: after a valid sequence in which every allocated block has been deallocated
\* with the length it was allocated with, in any order, used == 0 and every level's
\* bitmap and free count equal those of a freshly constructed allocator.
C14_AllFreedIsFresh ==
    BuddyValid /\ bres.out = "ok" /\ blive = EmptyBag =>
        used = 0 /\ bitmaps = BuddyNew(info)

\* C14 witness: the dealloc of a one-unit allocation gave back the last live block
C14_Witness ==
    /\ bres.op = "dealloc" /\ bres.out = "ok" /\ blive = EmptyBag
    /\ LevelOf(bres.len) = 0 /\ info.levels >= 3

\* C15: in every state reachable by construction and a valid alloc/dealloc sequence,
\* at no level below the top are both blocks 2k and 2k+1 marked free.
C15_NoFreeSiblings ==
    BuddyValid /\ bres.out = "ok" =>
        \A j \in 0 .. info.levels - 2 :
            \A k \in 0 .. 4 * Cardinality(DOMAIN bitmaps[j + 1].bits) - 1 :
                ~(get(bitmaps[j + 1], 2 * k) /\ get(bitmaps[j + 1], 2 * k + 1))

\* C15 witness: the dealloc of a one-unit block has merged it with its buddy (its
\* own bit is clear again) while another allocation is live
C15_Witness ==
    /\ bres.op = "dealloc" /\ bres.out = "ok" /\ LevelOf(bres.len) = 0
    /\ ~get(bitmaps[1], (bres.addr - data_addr) \div UNIT_SIZE)
    /\ blive # EmptyBag

\* the request length rounded up to a multiple of unit_size
AlignedLen(len) == div_ceil(len, UNIT_SIZE) * UNIT_SIZE

RECURSIVE SumAligned(_)
SumAligned(S) ==
    IF S = {} THEN 0
    ELSE LET a == CHOOSE x \in S : TRUE
         IN  CopiesIn(a, blive) * AlignedLen(a.len) + SumAligned(S \ {a})

\* C16: after every operation of a valid alloc/dealloc sequence used equals the sum
\* over the live allocations of their request length rounded up to a multiple of
\* unit_size, and used <= data_len.
C16_UsedIsSumOfLive ==
    BuddyValid /\ bres.out = "ok" =>
        used = SumAligned(BagToSet(blive)) /\ used <= data_len

\* C16 witness: two allocations are live, one of a length that is not a multiple of
\* the unit
C16_Witness ==
    /\ bres.op = "alloc" /\ bres.ret # None
    /\ BagCardinality(blive) >= 2
    /\ \E a \in BagToSet(blive) : a.len = UNIT_SIZE + 1

\* C17: every address returned by alloc(byte_len) lies in the data region and is a
\* multiple of unit_size << i*, i* the smallest level whose blocks hold byte_len
\* rounded up to a unit (the region base being aligned to unit_size).
C17_ReturnedAddressAligned ==
    bres.op = "alloc" /\ bres.ret # None =>
        /\ data_addr <= bres.ret
        /\ bres.ret < data_addr + data_len
        /\ bres.ret % (UNIT_SIZE * (2 ^ LevelOf(bres.len))) = 0

\* C18: on a freshly constructed allocator the first alloc(1) returns data_base, and
\* the dealloc(data_base, 1) that follows at once restores used == 0.
C18_FirstAllocIsDataBase ==
    [][/\ bres.op = "new" /\ bres'.op = "alloc" /\ bres'.len = 1
          => bres'.ret = data_addr
       /\ bres.op = "alloc" /\ bres.len = 1 /\ BagCardinality(blive) = 1
             /\ bres'.op = "dealloc"
          => used' = 0]_vars

(***************************************************************************)
(* Claims about the construction of the buddy allocator                    *)
(***************************************************************************)
\* floor(log2(n)) for n >= 1
RECURSIVE Log2Floor(_)
Log2Floor(n) == IF n <= 1 THEN 0 ELSE 1 + Log2Floor(n \div 2)

\* sum over the levels i below n of ceil((units >> i) / 8)
RECURSIVE SumBitmapBytes(_, _)
SumBitmapBytes(units, n) ==
    IF n = 0 THEN 0
    ELSE SumBitmapBytes(units, n - 1) + ((units \div (2 ^ (n - 1))) + 7) \div 8

\* 16 * levels + the bytes of the bitmaps, for a region of that many units
MetadataOf(units) ==
    16 * (Log2Floor(units) + 1) + SumBitmapBytes(units, Log2Floor(units) + 1)

\* the layout that the claim gives for a region of len bytes at addr
LayoutAsClaimed(inf, addr, len) ==
    LET offset == ((MetadataOf(len \div UNIT_SIZE) + UNIT_SIZE - 1) \div UNIT_SIZE)
                      * UNIT_SIZE
        units == (len - offset) \div UNIT_SIZE
    IN  /\ inf.data_offset = offset
        /\ inf.units = units
        /\ inf.levels = Log2Floor(units) + 1
        /\ inf.metadata_len = MetadataOf(units)
        /\ inf.raw_addr + inf.data_offset = addr + offset

\* C19: for a unit-aligned region of length len, data_offset is the metadata size of
\* the whole region rounded up to a unit, units == (len - data_offset) / unit_size,
\* levels == floor(log2(units)) + 1, metadata_len == 16 * levels + the sum over the
\* levels i of ceil((units >> i) / 8), and data_addr == addr + data_offset; for
\* len = 0x200000 this gives units == 0x1ff, levels == 9, data_addr == addr + 0x1000.
C19_ConstructionLayout ==
    /\ LayoutAsClaimed(info, info.raw_addr, info.total_len)
    /\ data_addr = info.raw_addr + info.data_offset
    /\ LET big == InfoNew(RawAddr, 512 * UNIT_SIZE)
       IN  /\ ~big.panic
           /\ LayoutAsClaimed(big, RawAddr, 512 * UNIT_SIZE)
           /\ big.units = 511 /\ big.levels = 9
           /\ big.raw_addr + big.data_offset = RawAddr + 4096

\* C19 witness: an allocator built on a region whose number of data units is not a
\* power of two
C19_Witness ==
    bres.op = "new" /\ info.units = 3 /\ info.levels = 2 /\ info.data_offset = UNIT_SIZE

(***************************************************************************)
(* Claims about the level-by-level sequence                                *)
(***************************************************************************)
\* the level whose batch the live allocations belong to
SeqLevel ==
    CHOOSE level \in 0 .. info.levels - 1 :
        \A a \in BagToSet(blive) : a.len = SeqLen(level)

\* C20: on a fully free allocator, for every level i, the units >> i consecutive
\* alloc((unit_size << i) - 1) calls all succeed, their results are exactly the
\* addresses data_base + k * (unit_size << i) for 0 <= k < units >> i, used then
\* equals (data_len / block_size) * block_size, and the dealloc of each of those
\* addresses restores used == 0.
C20_LevelBatches ==
    /\ bres.out = "ok"
    /\ bres.op = "alloc" => bres.ret # None
    /\ blive # EmptyBag /\ BagCardinality(blive) = SeqCount(SeqLevel) =>
          LET size == UNIT_SIZE * (2 ^ SeqLevel)
          IN  /\ {a.addr : a \in BagToSet(blive)} =
                    {data_addr + k * size : k \in 0 .. SeqCount(SeqLevel) - 1}
              /\ used = (data_len \div size) * size
    /\ blive = EmptyBag => used = 0

\* C20 witness: the batch of level 0 has been allocated in full on a region with an
\* odd number of units, the last alloc having split a block of level 1
C20_Witness ==
    /\ bres.op = "alloc" /\ bres.ret = data_addr + UNIT_SIZE
    /\ info.units = 3 /\ SeqLevel = 0 /\ BagCardinality(blive) = 3
    /\ used = 3 * UNIT_SIZE

(***************************************************************************)
(* Claims about the slab allocator: pages and slots                        *)
(***************************************************************************)
\* the pages the live pointers lie in
LivePages == {page_from_object(p) : p \in BagToSet(slive)}

\* C21: on a fresh slab exactly slots_per_page = (unit_size - slot_offset_in_page) /
\* slot_size consecutive allocs are served from the first page with a single
\* provider.allocate call; the next alloc succeeds by obtaining a second page; after
\* all slots_per_page + 1 pointers are deallocated, the next slots_per_page allocs
\* all succeed.
C21_FullPageCycle ==
    LET n == chunks_per_page(slab)
        live == BagCardinality(slive)
    IN  /\ sres.out = "ok" /\ ~uaf
        /\ sres.op = "alloc" =>
              /\ sres.ret # None
              /\ live = 1 => sres.page # None
              /\ 1 < live /\ live <= n => sres.page = None
              /\ live <= n => Cardinality(held) = 1 /\ LivePages = held
              /\ live = n + 1 =>
                    sres.page # None /\ Cardinality(held) = 2 /\ LivePages = held

\* C21 witness: a second round has filled a page of three slots, after the four
\* pointers of the round before were given back
C21_Witness ==
    /\ sres.op = "alloc" /\ sres.ret # None
    /\ chunks_per_page(slab) = 3 /\ BagCardinality(slive) = 3
    /\ returned # {}

\* the offset reached from the free head of the page after k next offsets (0 once
\* the chain has ended or has left the slots of the page)
RECURSIVE FreeAt(_, _)
FreeAt(page, k) ==
    IF k = 0 THEN hdr[page].free
    ELSE LET before == FreeAt(page, k - 1)
         IN  IF before \in DOMAIN obj[page] THEN obj[page][before].next ELSE 0

\* the free chain of the page is made of the slots with the empty magic, each once,
\* and the count of the page is the number of its slots with the allocated magic
PageFreeListExact(page) ==
    LET N == Cardinality(DOMAIN obj[page])
        links == {k \in 0 .. N : FreeAt(page, k) # 0}
        reached == {FreeAt(page, k) : k \in links}
    IN  /\ FreeAt(page, N) = 0
        /\ Cardinality(reached) = Cardinality(links)
        /\ reached = {off \in DOMAIN obj[page] : obj[page][off].magic = 0}
        /\ hdr[page].count =
              Cardinality({off \in DOMAIN obj[page] : obj[page][off].magic = OBJECT_MAGIC})
        /\ \A off \in DOMAIN obj[page] : obj[page][off].magic \in {0, OBJECT_MAGIC}

\* C22: after every completed operation of a valid sequence, for every page held by
\* the slab the slots reachable from the page's free head through the next offsets
\* are exactly the slots whose magic is the empty value, each reached once, and the
\* page's allocation count equals the number of its allocated-magic slots.
C22_FreeListIsEmptySlots ==
    SlabValid /\ sres.out = "ok" => \A page \in held : PageFreeListExact(page)

\* C22 witness: a page of three slots holds a live slot and a chain of two free
\* slots, the head of which was given back by the dealloc just done
C22_Witness ==
    /\ sres.op = "dealloc" /\ sres.out = "ok" /\ ~uaf
    /\ \E page \in held :
          /\ Cardinality(DOMAIN obj[page]) = 3
          /\ hdr[page].count = 1
          /\ hdr[page].free = OffsetOf(sres.ptr - slab.front_size)
          /\ page = page_from_object(sres.ptr)
          /\ FreeAt(page, 1) # 0

\* C23: after every completed operation of a valid sequence, every page reachable
\* from the partially-used list has a non-zero free head and 0 < alloc_count <
\* slots_per_page; a page whose free head is 0 (fully allocated) is never reachable
\* from the list.
C23_ListPagesPartiallyUsed ==
    SlabValid /\ sres.out = "ok" /\ ~uaf =>
        \A page \in ListPages \cap held :
            /\ hdr[page].free # 0
            /\ 0 < hdr[page].count
            /\ hdr[page].count < Cardinality(DOMAIN obj[page])

\* C24: after every completed alloc or dealloc of a valid sequence, every page held
\* by the slab has at least one live slot (a page whose count reaches 0 is unlinked
\* and returned to the provider in the same dealloc); hence whenever the number of
\* outstanding allocations is zero the slab holds zero pages and its list is empty,
\* as in a fresh allocator.
C24_HeldPagesHaveLiveSlots ==
    SlabValid /\ sres.out = "ok" /\ ~uaf =>
        /\ \A page \in held : hdr[page].count > 0 /\ page \in LivePages
        /\ slive = EmptyBag => held = {} /\ NextOf(Memory, AvailAddr) = Null

\* C25: in every valid alloc/dealloc sequence, provider.deallocate is called only
\* with a page that was returned by an earlier provider.allocate and has not been
\* passed to provider.deallocate since (no page is returned twice), and only when
\* that page has no live slot.
C25_DeallocateOnlyHeldPages ==
    sres.op = "dealloc" /\ sres.page # None =>
        sres.held /\ sres.page \notin LivePages

\* C26: for every (S, A) accepted by the constructor, every pointer p returned by
\* alloc is a multiple of A, and [p, p + S) lies inside one provider page, after the
\* page header and strictly between that slot's left and right redzones.
C26_PayloadAlignedInsidePage ==
    sres.op = "alloc" /\ sres.ret # None =>
        LET p == sres.ret
            page == page_from_object(p)
            addr == p - slab.front_size
        IN  /\ p % slab.payload_align = 0
            /\ page \in PageAddrs
            /\ page + PageHeaderSize <= addr
            /\ addr + ObjectHeaderSize + REDZONE_SIZE <= p
            /\ p + slab.payload_size + REDZONE_SIZE <= addr + slab.object_size
            /\ addr + slab.object_size <= page + PAGE_SIZE
            /\ \A q \in BagToSet(slive) \ {p} :
                  q + slab.payload_size + REDZONE_SIZE <= addr
                      \/ addr + slab.object_size <= q - slab.front_size

\* C26 witness: the last slot of a page of an allocator with alignment 256 has been
\* handed out, one byte being asked for
C26_Witness ==
    /\ sres.op = "alloc" /\ sres.ret # None
    /\ slab.payload_align = 256 /\ slab.payload_size = 1
    /\ BagCardinality(slive) = Cardinality(SlotOffsets(slab))
    /\ hdr[AvailAddr].next = Null

(***************************************************************************)
(* Claims about IrqMutex                                                   *)
(***************************************************************************)
\* C27: for a lock() followed by dropping its guard, interrupts are disabled for
\* the whole time the guard exists and the interrupt-enabled flag after the drop
\* equals its value just before lock(); a try_lock() that fails returns None with
\* the flag restored to its prior value.
C27_GuardMasksInterrupts ==
    /\ guards # <<>> => ~intr
    /\ ires.op = "drop" => intr = ires.prior
    /\ ires.op = "try_lock" /\ ires.ret = "none" => intr = ires.prior

(***************************************************************************)
(* Claims about the slab allocator: payload content and list order         *)
(***************************************************************************)
\* the slot of the payload pointer p
SlotOf(p) == obj[page_from_object(p)][OffsetOf(p - slab.front_size)]

\* C28: every byte of the S-byte payload returned by alloc is zero at the time
\* alloc returns, for a fresh page with arbitrary prior content as well as for a
\* reused slot.
C28_PayloadZeroed ==
    sres.op = "alloc" /\ sres.ret # None /\ ~uaf =>
        /\ SlotOf(sres.ret).bytes[slab.front_size] = 0
        /\ SlotOf(sres.ret).bytes[right_offset(slab) - 1] = 0

\* C29: when dealloc frees a slot of a page that was fully allocated and the page
\* still has live slots, the page is appended at the tail of the partially-used
\* list, so that every page already in the list is drawn from by alloc before it.
C29_FullPageAppendedAtTail ==
    [][LET page == page_from_object(sres'.ptr)
       IN  /\ sres'.op = "dealloc" /\ sres'.out = "ok" /\ ~uaf'
           /\ page \in held /\ sres'.page = None
           /\ hdr[page].free = 0 /\ hdr'[page].count > 0
           /\ hdr[AvailAddr].next # Null
           => /\ hdr'[AvailAddr].next = hdr[AvailAddr].next
              /\ hdr'[page].next = Null]_vars

\* C30: dealloc of a slot on a page that was not full before the call (it is
\* already in the partially-used list) and that still has live slots afterwards
\* leaves the list's membership, order and all prev/next links unchanged; a page is
\* inserted into the list by dealloc only when it was full before the call.
C30_PartialPageLeavesListAlone ==
    [][LET page == page_from_object(sres'.ptr)
       IN  /\ sres'.op = "dealloc" /\ sres'.out = "ok" /\ ~uaf'
           /\ page \in held /\ sres'.page = None
           /\ hdr[page].free # 0 /\ hdr'[page].count > 0
           => \A a \in DOMAIN hdr :
                 hdr'[a].next = hdr[a].next /\ hdr'[a].prev = hdr[a].prev]_vars

\* C31: in every valid sequence, alloc calls provider.allocate only when no page
\* held by the slab has a free slot, i.e. freed slots are always reused before a new
\* page is requested.  (alloc calls the provider when the list is empty.)
C31_ProviderAskedOnlyWhenFull ==
    [][sres'.op = "alloc" /\ page_list_is_tail(Memory, AvailAddr)
          => \A page \in held : hdr[page].free = 0]_vars

(***************************************************************************)
(* Claims about the buddy allocator: choice of block, split, bitmaps       *)
(***************************************************************************)
LeastOf(S) == CHOOSE x \in S : \A y \in S : x <= y

\* the blocks of level j
BlocksOf(j) == 0 .. (info.units \div (2 ^ j)) - 1

\* the blocks of level j marked free in the bitmaps bms
FreeIn(bms, j) == {b \in BlocksOf(j) : get(bms[j + 1], b)}

\* C32: a successful alloc takes its block from the lowest level j >= i* whose free
\* count is non-zero and, at that level, from the lowest-index block marked free;
\* the result is therefore a deterministic function of the bitmap state and the
\* request size.
C32_LowestLevelLowestIndex ==
    [][bres'.op = "alloc" /\ bres'.ret # None =>
          LET levels == {j \in LevelOf(bres'.len) .. info.levels - 1 :
                            bitmaps[j + 1].count # 0}
          IN  /\ levels # {}
              /\ LET j == LeastOf(levels)
                     b == LeastOf(FreeIn(bitmaps, j))
                 IN  /\ FreeIn(bitmaps, j) # {}
                     /\ bres'.ret = data_addr + b * (UNIT_SIZE * (2 ^ j))
                     /\ ~get(bitmaps'[j + 1], b)]_vars

\* C32 witness: alloc has returned block 0 of level 0 while block 2 of that level
\* was free as well and still is
C32_Witness ==
    /\ bres.op = "alloc" /\ bres.ret = data_addr /\ LevelOf(bres.len) = 0
    /\ info.units = 4
    /\ get(bitmaps[1], 2)
    /\ BagCardinality(blive) = 3

\* every bit that the byte array of level l holds
BitsOf(l) == 0 .. 8 * Cardinality(DOMAIN bitmaps[l + 1].bits) - 1

\* C33: when alloc serves level i* from the free block b of a level j > i*, then
\* afterwards bit b of level j is cleared, at each level k with i* <= k < j exactly
\* the bit (b << (j - k)) + 1 has become free, no other bit of any level has
\* changed, and the address returned is data_base + b * (unit_size << j).
C33_SplitMarksRightChildren ==
    [][bres'.op = "alloc" /\ bres'.ret # None =>
          LET fit == LevelOf(bres'.len)
              j == LeastOf({l \in fit .. info.levels - 1 : bitmaps[l + 1].count # 0})
              b == LeastOf(FreeIn(bitmaps, j))
              right(k) == b * (2 ^ (j - k)) + 1
          IN  j > fit =>
                /\ ~get(bitmaps'[j + 1], b)
                /\ \A k \in fit .. j - 1 :
                       ~get(bitmaps[k + 1], right(k)) /\ get(bitmaps'[k + 1], right(k))
                /\ \A l \in 0 .. info.levels - 1 : \A i \in BitsOf(l) :
                       \/ l = j /\ i = b
                       \/ l \in fit .. j - 1 /\ i = right(l)
                       \/ get(bitmaps'[l + 1], i) = get(bitmaps[l + 1], i)
                /\ bres'.ret = data_addr + b * (UNIT_SIZE * (2 ^ j))]_vars

\* C33 witness: alloc has served level 0 from block 1 of level 1, whose right child,
\* block 3 of level 0, is free now
C33_Witness ==
    /\ bres.op = "alloc" /\ bres.ret = data_addr + 2 * UNIT_SIZE
    /\ LevelOf(bres.len) = 0
    /\ info.units = 4
    /\ get(bitmaps[1], 3) /\ bitmaps[1].count = 1 /\ bitmaps[2].count = 0
    /\ BagCardinality(blive) = 3

\* C34: dealloc(addr, len) acts on the unit-aligned range [floor(addr), ceil(addr +
\* len)): for a block of size s allocated at a, dealloc(a + 1, s - 1) has exactly the
\* same effect on the bitmaps, the counts and used as dealloc(a, s).
C34_UnalignedDeallocSameEffect ==
    [][bres'.op = "dealloc" /\ bres'.addr % UNIT_SIZE = 1 =>
          \E overflow_checks \in BOOLEAN :
             LET r == dealloc(bres'.addr - 1, bres'.len + 1, overflow_checks)
             IN  /\ bres'.out = "ok" /\ r.out = "ok"
                 /\ bitmaps' = r.bitmaps
                 /\ used' = r.used
                 /\ used' = used - (bres'.len + 1)]_vars

\* C34 witness: dealloc(a + 1, unit_size - 1) has given back a one-unit block, which
\* merged with its buddy, while another allocation stays live
C34_Witness ==
    /\ bres.op = "dealloc" /\ bres.out = "ok"
    /\ bres.addr % UNIT_SIZE = 1 /\ bres.len = UNIT_SIZE - 1
    /\ ~get(bitmaps[1], (bres.addr - data_addr) \div UNIT_SIZE)
    /\ blive # EmptyBag

\* C35: in every reachable state, for every level, the cached count of the level
\* equals the number of set bits in its bitmap, and no bit at an index
\* >= (units >> level) is ever set.
C35_CountIsPopcount ==
    \A l \in 0 .. info.levels - 1 :
        /\ bitmaps[l + 1].count =
               Cardinality({i \in BitsOf(l) : get(bitmaps[l + 1], i)})
        /\ \A i \in BitsOf(l) : get(bitmaps[l + 1], i) => i \in BlocksOf(l)

\* C35 witness: after a dealloc two blocks of level 0 that are no buddies are free
C35_Witness ==
    /\ bres.op = "dealloc" /\ bres.out = "ok"
    /\ bitmaps[1].count = 2
    /\ get(bitmaps[1], 0) /\ get(bitmaps[1], 2)

\* the metadata of a region of len bytes, rounded up to a unit, leaves room in it
MetadataFits(len) ==
    LET units == len \div UNIT_SIZE
        levels == Log2Floor(units) + 1
        bytes == 16 * levels + SumBitmapBytes(units, levels)
    IN  div_ceil(bytes, UNIT_SIZE) * UNIT_SIZE < len

\* C36: construct(addr, len) panics when len <= unit_size, and for every unit-aligned
\* len > unit_size whose metadata fits in the region it returns an allocator (does
\* not panic) with a non-empty data region.
C36_ConstructionAccepts ==
    bres.op = "new" =>
        /\ info.total_len <= UNIT_SIZE => bres.out = "panic"
        /\ info.total_len > UNIT_SIZE /\ info.total_len % UNIT_SIZE = 0
              /\ MetadataFits(info.total_len)
              => bres.out = "ok" /\ data_len > 0

\* the free blocks <<level, index>> that cover unit u of the data region
FreeCovering(u) ==
    {lb \in UNION {{<<l, i>> : i \in FreeIn(bitmaps, l)} : l \in 0 .. info.levels - 1} :
        lb[2] * (2 ^ lb[1]) <= u /\ u < (lb[2] + 1) * (2 ^ lb[1])}

\* the live allocations whose block covers unit u of the data region
LiveCovering(u) ==
    {a \in BagToSet(blive) :
        BlockLo(a) <= data_addr + u * UNIT_SIZE /\ data_addr + u * UNIT_SIZE < BlockHi(a)}

\* C37: in every reachable state each of the units unit-sized pages of the data
\* region is covered by exactly one block that is either marked free in the bitmap
\* of some level or belongs to a live allocation; no free block overlaps another
\* free block or a live allocation, and no unit is lost.
C37_UnitsPartitioned ==
    BuddyValid /\ bres.out = "ok" =>
        /\ \A u \in 0 .. info.units - 1 :
               /\ Cardinality(FreeCovering(u)) + Cardinality(LiveCovering(u)) = 1
               /\ \A a \in LiveCovering(u) : CopiesIn(a, blive) = 1
        /\ \A a \in BagToSet(blive) :
               data_addr <= BlockLo(a) /\ BlockHi(a) <= data_addr + data_len

\* C37 witness: after an alloc that split a block, allocations of two levels are live
\* and one block of level 0 is free
C37_Witness ==
    /\ bres.op = "alloc" /\ bres.out = "ok" /\ bres.ret # None
    /\ \E a, b \in BagToSet(blive) : LevelOf(a.len) = 0 /\ LevelOf(b.len) = 1
    /\ LevelOf(bres.len) = 0 /\ info.units = 4
    /\ bitmaps[1].count = 1 /\ bitmaps[2].count = 0 /\ bitmaps[3].count = 0

(***************************************************************************)
(* Claims about the kernel: IrqMutex nesting, main loop, ring buffer       *)
(***************************************************************************)
\* C38: at every point at which the inner lock of any IrqMutex is held, interrupts
\* are disabled, also when guards of several IrqMutexes are nested and dropped in
\* any order; an interrupt handler on the same CPU therefore never finds an IrqMutex
\* held by the code it interrupted.
C38_HeldImpliesDisabled ==
    (\E m \in Mutexes : inner[m]) => ~intr

\* C40: for any sequence of try_push and try_pop on a buffer of capacity CAP >= 1,
\* len() never exceeds CAP, try_push returns None and changes nothing exactly when
\* len() == CAP, try_pop returns None exactly when the buffer is empty, and the
\* values returned by try_pop are the accepted values in push order, across index
\* wrap-around.
C40_RingIsBoundedFifo ==
    [][/\ ring_len(ring') = Len(rqueue')
       /\ ring_len(ring') <= capacity(ring')
       /\ rres'.op = "try_push" =>
             /\ ~rres'.some <=> Len(rqueue) = capacity(ring)
             /\ ~rres'.some => ring' = ring
       /\ rres'.op = "try_pop" =>
             /\ ~rres'.some <=> rqueue = <<>>
             /\ rres'.some => rres'.value = Head(rqueue).val]_vars

\* C40 witness: try_pop has returned a value from a buffer of three slots whose
\* content runs over the end of the array, and two values are left in it
C40_Witness ==
    /\ rres.op = "try_pop" /\ rres.some
    /\ capacity(ring) = 3
    /\ ring.last < ring.first
    /\ ring_len(ring) = 2
    /\ rqueue[1].val # rqueue[2].val

\* the numbers of the messages that are queued
QueuedTags == {rqueue[i].tag : i \in 1 .. Len(rqueue)}

\* C39: with interrupt handlers calling intmsg_push at arbitrary points where
\* interrupts are enabled, the main loop never halts while a message is queued
\* without a pending wake-up (check and halt are atomic with respect to
\* interrupts), so every message accepted by intmsg_push is eventually popped and
\* dispatched, in push order.
C39_AcceptedMessagesDispatched ==
    /\ [](kpc = "halted" /\ rqueue # <<>> => kif /\ kpending # {})
    /\ [][kpc = "pop" /\ kpc' = "enable" => kmsg'.val = Head(rqueue).val]_vars
    /\ [][kdisp' # kdisp \/ (kpc = "match" /\ kpc' # "match") =>
             /\ kpc = "match"
             /\ kmsg.tag = (kdisp + 1) % TagCount
             /\ kdisp' = kmsg.tag]_vars
    /\ \A t \in 0 .. TagCount - 1 : (t \in QueuedTags) ~> (kdisp = t)

\* C39 witness: the CPU is halted after the dispatch of two messages, the second a
\* key that keyboard_handler printed, and an interrupt that will wake it is pending
C39_Witness ==
    /\ kpc = "halted" /\ kif
    /\ kdisp = 1 /\ knext = 2
    /\ kmsg.val = Keyboard(28)
    /\ rqueue = <<>>
    /\ kpending # {}

====
